---------------------------- MODULE Spec2Model ----------------------------
(***************************************************************************)
(* Model of the claim verification and verdict aggregation pipeline of     *)
(* deepscope: the claim aggregator and the batch aggregator                *)
(* (src/src/verdict_aggregator.py), the sequential fact checker            *)
(* (src/src/factchecker.py) and the source adapters                        *)
(* (src/src/factchecker.py, src/src/services/fact_check_service.py).       *)
(*                                                                         *)
(* Python floats that the code computes as quotients of small counts are   *)
(* modelled as reduced fractions <<num, den>>: 0.0 is <<0, 1>>, 0.5 is     *)
(* <<1, 2>>.  Per-source confidences, which the code only passes through   *)
(* or compares with a threshold, are modelled in tenths (8 is 0.8).        *)
(* Python's None is the empty sequence, a present optional value v is <<v>>.*)
(***************************************************************************)
EXTENDS Integers, Sequences, FiniteSets, TLC

VARIABLES
    \* ---- aggregate_source_results applied to one list (and to a second
    \*      list that differs only in the per-source confidences)
    source_results,     \* the argument of aggregate_source_results
    agg_out,            \* <<>> before the call, <<result>> after it
    alt_results,        \* the argument of the second run
    alt_out,            \* <<>> before the second run, <<result>> after it
    \* ---- aggregate_verdicts applied to one batch
    batch_in,           \* the argument claims_results
    batch_times,        \* the argument processing_times
    batch_out,          \* <<>> before the call, <<result>> after it
    \* ---- one check_claim of a source adapter
    google_provider,    \* <<what the Google provider does>>, or <<>>
    llm_reply,          \* <<what the model call does>>, or <<>>
    adapter,            \* the adapter that was called, "" before the call
    adapter_out,        \* <<>> before the call, then <<what check_claim returned>>
    retry_trace,        \* <<how the wrapper of retry_with_backoff ended, with the
                        \* calls of func and the sleeps it made>>, or <<>>
    llm_calls,          \* the calls of the model API made by check_claim
    \* ---- one call of _interpret_rating
    rating_text,        \* the argument textual_rating, a str
    rating_out,         \* <<>> before the call, then <<what it returned>>
    \* ---- one run of FactChecker.check_facts (src/src/factchecker.py)
    fc_claims,          \* the argument claims
    fc_pc,              \* where the coroutine is: "idle", "loop", "llm", "google",
                        \* "done" (returned) or "raised"
    fc_llm_result,      \* <<llm_result>> of the current check_fact, or <<>>
    fc_elapsed,         \* time.time() - start_time of the current claim so far
    fc_processing_times,\* the dict processing_times
    fc_claims_results,  \* the list claims_results
    fc_out,             \* <<>>, then <<what check_facts returned>>
    fc_calls,           \* the adapter calls check_fact has made for the current claim
    fc_measured,        \* the processing_time measured for each claim so far, by
                        \* position in claims
    \* ---- one run of FactCheckerService.check_facts
    \*      (src/src/services/fact_check_service.py)
    sv_claims,          \* the argument claims
    sv_pc,              \* where the coroutine is: "idle", "loop", "llm", "google"
                        \* or "done" (returned)
    sv_in_flight,       \* the adapter calls running in the executor
    sv_reply,           \* <<what the model call did>> for the current claim
    sv_provider,        \* <<what the Google provider did>> for the current claim
    sv_llm_res,         \* <<llm_res>> of the current check_fact, or <<>>
    sv_google_res,      \* <<google_res>> of the current check_fact, or <<>>
    sv_results,         \* the list results
    sv_out,             \* <<>>, then <<what check_facts returned>>
    \* ---- the video routes of src/src/api_routes.py with the poller of
    \*      src/src/main.py and the scripts of src/scripts
    vd_docs,            \* the documents of the collection 'videos', by id
    vd_stored,          \* by video id, the background tasks whose
                        \* store_fact_check_results has completed
    vd_tasks,           \* the background tasks added so far: video and position
    vd_todo,            \* by client (poller, script): the videos of its listing
                        \* that it has still to post
    vd_response         \* <<the response of the request made in the last step>>

aggVars     == <<source_results, agg_out, alt_results, alt_out>>
batchVars   == <<batch_in, batch_times, batch_out>>
adapterVars == <<google_provider, llm_reply, adapter, adapter_out, retry_trace, llm_calls>>
fcVars      == <<fc_claims, fc_pc, fc_llm_result, fc_elapsed, fc_processing_times,
                 fc_claims_results, fc_out, fc_calls, fc_measured>>
svVars      == <<sv_claims, sv_pc, sv_in_flight, sv_reply, sv_provider, sv_llm_res,
                 sv_google_res, sv_results, sv_out>>
ratingVars  == <<rating_text, rating_out>>
videoVars   == <<vd_docs, vd_stored, vd_tasks, vd_todo, vd_response>>
vars        == <<aggVars, batchVars, adapterVars, fcVars, svVars, ratingVars, videoVars>>

\* the variables that a specification of one part leaves alone
notAggVars     == <<batchVars, adapterVars, fcVars, svVars, ratingVars, videoVars>>
notBatchVars   == <<aggVars, adapterVars, fcVars, svVars, ratingVars, videoVars>>
notAdapterVars == <<aggVars, batchVars, fcVars, svVars, ratingVars, videoVars>>
notFcVars      == <<aggVars, batchVars, adapterVars, svVars, ratingVars, videoVars>>
notSvVars      == <<aggVars, batchVars, adapterVars, fcVars, ratingVars, videoVars>>
notRatingVars  == <<aggVars, batchVars, adapterVars, fcVars, svVars, videoVars>>
notVideoVars   == <<aggVars, batchVars, adapterVars, fcVars, svVars, ratingVars>>

-----------------------------------------------------------------------------
(* Bounds of the model *)

\* longest list of source records given to aggregate_source_results
MaxSources == 3

\* longest batch of claim records given to aggregate_verdicts
MaxBatch == 3

\* longest list of claims given to FactChecker.check_facts
MaxClaims == 2

\* most background tasks added during a run of the video service
MaxTasks == 2

-----------------------------------------------------------------------------
(* Values *)

None == <<>>
Some(v) == <<v>>

\* the closed verification vocabulary of a source record
Verification == {"match", "mismatch", "no_data", "conflicting"}

\* what the "verification" key of a dict handed to the aggregator can hold:
\* the four values, or anything else (a string outside the vocabulary, a
\* missing key read as None by r.get), represented by "uncertain"
AnyVerification == Verification \cup {"uncertain"}

\* per-source confidences (tenths) carried by the records of the aggregator runs
AggConfidences == {5, 10}

SourceRecord == [verification : AnyVerification, confidence : AggConfidences]

\* all sequences over S of length at most n
SeqUpTo(S, n) == UNION {[1..k -> S] : k \in 0..n}

-----------------------------------------------------------------------------
(* Fractions: the floats computed by the aggregators *)

RECURSIVE GCD(_, _)
GCD(a, b) == IF b = 0 THEN a ELSE GCD(b, a % b)

\* a / b for naturals a, b with b > 0, in lowest terms
Quot(a, b) == LET g == GCD(a, b) IN <<a \div g, b \div g>>

Zero == <<0, 1>>
Half == <<1, 2>>

FracAdd(x, y) == Quot(x[1] * y[2] + y[1] * x[2], x[2] * y[2])

FracDivNat(x, n) == Quot(x[1], x[2] * n)

RECURSIVE FracSum(_)
FracSum(s) == IF s = <<>> THEN Zero ELSE FracAdd(s[1], FracSum(Tail(s)))

\* statistics.mean over a non-empty list of floats
mean(confidences) == FracDivNat(FracSum(confidences), Len(confidences))

-----------------------------------------------------------------------------
(* src/src/verdict_aggregator.py *)

\* sum(1 for r in source_results if r.get("verification") == v)
CountVerification(rs, v) ==
    Cardinality({i \in DOMAIN rs : rs[i].verification = v})

\* variant: only the records that take part in the majority have data
CountWithData_majority_only(rs) ==
    Cardinality({i \in DOMAIN rs : rs[i].verification \in {"match", "mismatch"}})

\* sum(1 for r in source_results if r.get("verification") != "no_data")
CountWithData(rs) ==
    Cardinality({i \in DOMAIN rs : rs[i].verification # "no_data"})

AggResult(status, confidence, summary, rs) ==
    [verdict  |-> [status |-> status, confidence |-> confidence, summary |-> summary],
     sources  |-> rs,
     metadata |-> [processing_time   |-> None,
                   sources_checked   |-> Len(rs),
                   sources_with_data |-> CountWithData(rs)]]


\* Variants of the operators below, each changed the way a slip in the code
\* would change it; the properties of the aggregator are checked against them.

\* the majority is computed before an explicit 'conflicting' record is looked at
aggregate_source_results_majority_first(rs) ==
    LET match_count       == CountVerification(rs, "match")
        mismatch_count    == CountVerification(rs, "mismatch")
        conflicting_count == CountVerification(rs, "conflicting")
    IN  IF match_count = 0 /\ mismatch_count = 0 /\ conflicting_count = 0
        THEN AggResult("unverified", Zero,
                       <<"No sources provided relevant data">>, rs)
        ELSE IF match_count > mismatch_count
        THEN AggResult("true", Quot(match_count, match_count + mismatch_count),
                       <<"Claim appears to be true based on", match_count,
                         "supporting sources">>, rs)
        ELSE IF mismatch_count > match_count
        THEN AggResult("false", Quot(mismatch_count, match_count + mismatch_count),
                       <<"Claim appears to be false based on", mismatch_count,
                         "contradicting sources">>, rs)
        ELSE AggResult("conflicting", Half,
                       <<"Sources provided contradictory findings">>, rs)

\* the quotient is taken over all the sources checked, 'no_data' included
aggregate_source_results_over_total(rs) ==
    LET match_count       == CountVerification(rs, "match")
        mismatch_count    == CountVerification(rs, "mismatch")
        conflicting_count == CountVerification(rs, "conflicting")
    IN  IF match_count = 0 /\ mismatch_count = 0 /\ conflicting_count = 0
        THEN AggResult("unverified", Zero,
                       <<"No sources provided relevant data">>, rs)
        ELSE IF conflicting_count > 0
        THEN AggResult("conflicting", Half,
                       <<"Sources provided contradictory findings">>, rs)
        ELSE IF match_count > mismatch_count
        THEN AggResult("true", Quot(match_count, Len(rs)),
                       <<"Claim appears to be true based on", match_count,
                         "supporting sources">>, rs)
        ELSE IF mismatch_count > match_count
        THEN AggResult("false", Quot(mismatch_count, Len(rs)),
                       <<"Claim appears to be false based on", mismatch_count,
                         "contradicting sources">>, rs)
        ELSE AggResult("conflicting", Half,
                       <<"Equal match/mismatch, so final result is conflicting">>, rs)

\* a tie counts for the claim (>= in place of >)
aggregate_source_results_tie_true(rs) ==
    LET match_count       == CountVerification(rs, "match")
        mismatch_count    == CountVerification(rs, "mismatch")
        conflicting_count == CountVerification(rs, "conflicting")
    IN  IF match_count = 0 /\ mismatch_count = 0 /\ conflicting_count = 0
        THEN AggResult("unverified", Zero,
                       <<"No sources provided relevant data">>, rs)
        ELSE IF conflicting_count > 0
        THEN AggResult("conflicting", Half,
                       <<"Sources provided contradictory findings">>, rs)
        ELSE IF match_count >= mismatch_count
        THEN AggResult("true", Quot(match_count, match_count + mismatch_count),
                       <<"Claim appears to be true based on", match_count,
                         "supporting sources">>, rs)
        ELSE AggResult("false", Quot(mismatch_count, match_count + mismatch_count),
                       <<"Claim appears to be false based on", mismatch_count,
                         "contradicting sources">>, rs)

\* only the empty list is 'unverified'; a list of 'no_data' records falls
\* through to the tie branch
aggregate_source_results_empty_only(rs) ==
    LET match_count       == CountVerification(rs, "match")
        mismatch_count    == CountVerification(rs, "mismatch")
        conflicting_count == CountVerification(rs, "conflicting")
    IN  IF Len(rs) = 0
        THEN AggResult("unverified", Zero,
                       <<"No sources provided relevant data">>, rs)
        ELSE IF conflicting_count > 0
        THEN AggResult("conflicting", Half,
                       <<"Sources provided contradictory findings">>, rs)
        ELSE IF match_count > mismatch_count
        THEN AggResult("true", Quot(match_count, match_count + mismatch_count),
                       <<"Claim appears to be true based on", match_count,
                         "supporting sources">>, rs)
        ELSE IF mismatch_count > match_count
        THEN AggResult("false", Quot(mismatch_count, match_count + mismatch_count),
                       <<"Claim appears to be false based on", mismatch_count,
                         "contradicting sources">>, rs)
        ELSE AggResult("conflicting", Half,
                       <<"Equal match/mismatch, so final result is conflicting">>, rs)

\* sum of the per-source confidences (tenths) of the records with verification v
RECURSIVE WeightOf(_, _)
WeightOf(rs, v) ==
    IF rs = <<>> THEN 0
    ELSE (IF rs[1].verification = v THEN rs[1].confidence ELSE 0)
         + WeightOf(Tail(rs), v)

\* the sources are weighted by their own confidence
aggregate_source_results_weighted(rs) ==
    LET match_count       == CountVerification(rs, "match")
        mismatch_count    == CountVerification(rs, "mismatch")
        conflicting_count == CountVerification(rs, "conflicting")
        match_weight      == WeightOf(rs, "match")
        mismatch_weight   == WeightOf(rs, "mismatch")
    IN  IF match_count = 0 /\ mismatch_count = 0 /\ conflicting_count = 0
        THEN AggResult("unverified", Zero,
                       <<"No sources provided relevant data">>, rs)
        ELSE IF conflicting_count > 0
        THEN AggResult("conflicting", Half,
                       <<"Sources provided contradictory findings">>, rs)
        ELSE IF match_weight > mismatch_weight
        THEN AggResult("true", Quot(match_weight, match_weight + mismatch_weight),
                       <<"Claim appears to be true based on", match_count,
                         "supporting sources">>, rs)
        ELSE IF mismatch_weight > match_weight
        THEN AggResult("false", Quot(mismatch_weight, match_weight + mismatch_weight),
                       <<"Claim appears to be false based on", mismatch_count,
                         "contradicting sources">>, rs)
        ELSE AggResult("conflicting", Half,
                       <<"Equal match/mismatch, so final result is conflicting">>, rs)

\* a tie of match and mismatch is decided by the first record with data
aggregate_source_results_first_wins(rs) ==
    LET match_count       == CountVerification(rs, "match")
        mismatch_count    == CountVerification(rs, "mismatch")
        conflicting_count == CountVerification(rs, "conflicting")
        first == CHOOSE i \in DOMAIN rs :
                     /\ rs[i].verification \in {"match", "mismatch"}
                     /\ \A j \in 1..(i - 1) : rs[j].verification \notin {"match", "mismatch"}
    IN  IF match_count = 0 /\ mismatch_count = 0 /\ conflicting_count = 0
        THEN AggResult("unverified", Zero,
                       <<"No sources provided relevant data">>, rs)
        ELSE IF conflicting_count > 0
        THEN AggResult("conflicting", Half,
                       <<"Sources provided contradictory findings">>, rs)
        ELSE IF match_count > mismatch_count
                \/ (match_count = mismatch_count /\ rs[first].verification = "match")
        THEN AggResult("true", Quot(match_count, match_count + mismatch_count),
                       <<"Claim appears to be true based on", match_count,
                         "supporting sources">>, rs)
        ELSE AggResult("false", Quot(mismatch_count, match_count + mismatch_count),
                       <<"Claim appears to be false based on", mismatch_count,
                         "contradicting sources">>, rs)

aggregate_source_results(rs) ==
    LET match_count       == CountVerification(rs, "match")
        mismatch_count    == CountVerification(rs, "mismatch")
        conflicting_count == CountVerification(rs, "conflicting")
    IN  IF match_count = 0 /\ mismatch_count = 0 /\ conflicting_count = 0
        THEN AggResult("unverified", Zero,
                       <<"No sources provided relevant data">>, rs)
        ELSE IF conflicting_count > 0
        THEN AggResult("conflicting", Half,
                       <<"Sources provided contradictory findings">>, rs)
        ELSE IF match_count > mismatch_count
        THEN AggResult("true", Quot(match_count, match_count + mismatch_count),
                       <<"Claim appears to be true based on", match_count,
                         "supporting sources">>, rs)
        ELSE IF mismatch_count > match_count
        THEN AggResult("false", Quot(mismatch_count, match_count + mismatch_count),
                       <<"Claim appears to be false based on", mismatch_count,
                         "contradicting sources">>, rs)
        ELSE AggResult("conflicting", Half,
                       <<"Equal match/mismatch, so final result is conflicting">>, rs)

\* datetime.utcnow().isoformat(): the wall clock is outside the model
utcnow == "utcnow"

\* the accumulators of aggregate_verdicts before its loop (lines 90-92)
BatchAcc0 == [aggregated_results |-> <<>>, verified_claims |-> 0, confidences |-> <<>>]

\* variant of the loop body: only 'unverified' results are left out of the
\* verified claims
BatchStep_unverified_only(acc, claim_result, processing_times) ==
    LET claim_text == claim_result.claim_text
        aggregated == aggregate_source_results(claim_result.checked_sources)
        result ==
            [claim    |-> [text |-> claim_text, timestamp |-> utcnow, language |-> "en",
                           source_context |-> claim_result.source_context],
             verdict  |-> aggregated.verdict,
             sources  |-> aggregated.sources,
             metadata |-> IF claim_text \in DOMAIN processing_times
                          THEN [aggregated.metadata EXCEPT
                                   !.processing_time = Some(processing_times[claim_text])]
                          ELSE aggregated.metadata]
        verified == result.verdict.status # "unverified"
    IN  [aggregated_results |-> Append(acc.aggregated_results, result),
         verified_claims    |-> acc.verified_claims + (IF verified THEN 1 ELSE 0),
         confidences        |-> IF verified
                                THEN Append(acc.confidences, result.verdict.confidence)
                                ELSE acc.confidences]

\* variant of the loop body: the newest result is put first
BatchStep_prepend(acc, claim_result, processing_times) ==
    LET claim_text == claim_result.claim_text
        aggregated == aggregate_source_results(claim_result.checked_sources)
        result ==
            [claim    |-> [text |-> claim_text, timestamp |-> utcnow, language |-> "en",
                           source_context |-> claim_result.source_context],
             verdict  |-> aggregated.verdict,
             sources  |-> aggregated.sources,
             metadata |-> IF claim_text \in DOMAIN processing_times
                          THEN [aggregated.metadata EXCEPT
                                   !.processing_time = Some(processing_times[claim_text])]
                          ELSE aggregated.metadata]
        verified == result.verdict.status \notin {"unverified", "conflicting"}
    IN  [aggregated_results |-> <<result>> \o acc.aggregated_results,
         verified_claims    |-> acc.verified_claims + (IF verified THEN 1 ELSE 0),
         confidences        |-> IF verified
                                THEN Append(acc.confidences, result.verdict.confidence)
                                ELSE acc.confidences]

\* one iteration of the loop of aggregate_verdicts (lines 94-117)
BatchStep(acc, claim_result, processing_times) ==
    LET claim_text == claim_result.claim_text
        aggregated == aggregate_source_results(claim_result.checked_sources)
        result ==
            [claim    |-> [text |-> claim_text, timestamp |-> utcnow, language |-> "en",
                           source_context |-> claim_result.source_context],
             verdict  |-> aggregated.verdict,
             sources  |-> aggregated.sources,
             metadata |-> IF claim_text \in DOMAIN processing_times
                          THEN [aggregated.metadata EXCEPT
                                   !.processing_time = Some(processing_times[claim_text])]
                          ELSE aggregated.metadata]
        verified == result.verdict.status \notin {"unverified", "conflicting"}
    IN  [aggregated_results |-> Append(acc.aggregated_results, result),
         verified_claims    |-> acc.verified_claims + (IF verified THEN 1 ELSE 0),
         confidences        |-> IF verified
                                THEN Append(acc.confidences, result.verdict.confidence)
                                ELSE acc.confidences]

\* the loop of aggregate_verdicts over claims_results, in list order
RECURSIVE BatchLoop(_, _, _)
BatchLoop(acc, claims_results, processing_times) ==
    IF claims_results = <<>> THEN acc
    ELSE BatchLoop(BatchStep(acc, Head(claims_results), processing_times),
                   Tail(claims_results), processing_times)

\* variant of the summary: the mean is taken over all the claims of the batch
BatchSummary_mean_over_total(acc) ==
    LET total_claims == Len(acc.aggregated_results)
    IN  [total_claims       |-> total_claims,
         verified_claims    |-> acc.verified_claims,
         unverified_claims  |-> total_claims - acc.verified_claims,
         average_confidence |-> IF total_claims # 0
                                THEN FracDivNat(FracSum(acc.confidences), total_claims)
                                ELSE Zero,
         timestamp          |-> utcnow]

\* the summary of aggregate_verdicts (lines 119-130)
BatchSummary(acc) ==
    LET total_claims == Len(acc.aggregated_results)
    IN  [total_claims       |-> total_claims,
         verified_claims    |-> acc.verified_claims,
         unverified_claims  |-> total_claims - acc.verified_claims,
         average_confidence |-> IF acc.confidences # <<>> THEN mean(acc.confidences)
                                                          ELSE Zero,
         timestamp          |-> utcnow]

\* processing_times is a dict from claim text to seconds; the default None
\* becomes the empty dict (lines 87-88), here the function with empty domain
aggregate_verdicts(claims_results, processing_times) ==
    LET acc == BatchLoop(BatchAcc0, claims_results, processing_times)
    IN  [aggregated_results |-> acc.aggregated_results,
         summary            |-> BatchSummary(acc)]

-----------------------------------------------------------------------------
(* Text.  A Python str that the code lower-cases or searches is a sequence *)
(* of one-character strings; a str that the code only stores or compares   *)
(* is a TLA+ string.                                                       *)

LowerOf ==
    [A |-> "a", B |-> "b", C |-> "c", D |-> "d", E |-> "e", F |-> "f", G |-> "g", H |-> "h", I |-> "i", J |-> "j", K |-> "k", L |-> "l", M |-> "m",
     N |-> "n", O |-> "o", P |-> "p", Q |-> "q", R |-> "r", S |-> "s", T |-> "t", U |-> "u", V |-> "v", W |-> "w", X |-> "x", Y |-> "y", Z |-> "z"]

\* str.lower(), on the letters of the ASCII alphabet
lower(chars) ==
    [i \in DOMAIN chars |-> IF chars[i] \in DOMAIN LowerOf THEN LowerOf[chars[i]]
                                                          ELSE chars[i]]

\* sub in chars (Python substring test)
Contains(sub, chars) ==
    \E i \in 0..(Len(chars) - Len(sub)) : SubSeq(chars, i + 1, i + Len(sub)) = sub

\* A JSON value of a provider's reply, as json.loads / response.json()
\* returns it: a str, a number (in tenths: 8 is 0.8), None, a dict (a record
\* whose domain is the set of keys; the empty dict is <<>>) or a list.
JStr(chars) == [type |-> "string", chars |-> chars]
JNum(tenths) == [type |-> "number", tenths |-> tenths]
JNull == [type |-> "null"]
JObj(fields) == [type |-> "object", fields |-> fields]
JArr(items) == [type |-> "array", items |-> items]

\* Python truth value of a JSON value (`if not v`)
Truthy(v) ==
    CASE v.type = "string" -> v.chars # <<>>
      [] v.type = "number" -> v.tenths # 0
      [] v.type = "null"   -> FALSE
      [] v.type = "object" -> v.fields # <<>>
      [] v.type = "array"  -> v.items # <<>>

\* The texts that the code compares a provider's string with.
WordChars ==
    [match |-> <<"m", "a", "t", "c", "h">>,
     mismatch |-> <<"m", "i", "s", "m", "a", "t", "c", "h">>,
     no_data |-> <<"n", "o", "_", "d", "a", "t", "a">>,
     conflicting |-> <<"c", "o", "n", "f", "l", "i", "c", "t", "i", "n", "g">>,
     true |-> <<"t", "r", "u", "e">>,
     false |-> <<"f", "a", "l", "s", "e">>,
     uncertain |-> <<"u", "n", "c", "e", "r", "t", "a", "i", "n">>]

\* The Python value of a JSON value where the code stores it or compares it
\* with one of its constants: the str itself for the texts above, "<other>"
\* for any other str, "<null>", "<number>", ... for a value that is no str.
PyValue(v) ==
    IF v.type = "string"
    THEN IF \E w \in DOMAIN WordChars : WordChars[w] = v.chars
         THEN CHOOSE w \in DOMAIN WordChars : WordChars[w] = v.chars
         ELSE "<other>"
    ELSE "<" \o v.type \o ">"

\* A str that the code builds (an f-string, str(x)): the format and the
\* values put into it.  Like a str of a reply its type is "string".
PyStr(format, args) == [type |-> "string", format |-> format, args |-> args]

\* dict.get(key, default) on a record used as a dict
Get(d, key, default) == IF key \in DOMAIN d THEN d[key] ELSE default

-----------------------------------------------------------------------------
(* GoogleFactCheckAPI._interpret_rating, the same text in                  *)
(* src/src/factchecker.py and src/src/services/fact_check_service.py       *)

false_indicators ==
    << <<"i", "n", "c", "o", "r", "r", "e", "c", "t">>,   \* incorrect
       <<"f", "a", "l", "s", "e">>,   \* false
       <<"u", "n", "t", "r", "u", "e">>,   \* untrue
       <<"m", "i", "s", "l", "e", "a", "d", "i", "n", "g">>,   \* misleading
       <<"w", "r", "o", "n", "g">>,   \* wrong
       <<"i", "n", "a", "c", "c", "u", "r", "a", "t", "e">>,   \* inaccurate
       <<"d", "e", "b", "u", "n", "k", "e", "d">>,   \* debunked
       <<"n", "o", " ", "e", "v", "i", "d", "e", "n", "c", "e">>,   \* no evidence
       <<"n", "o", "t", " ", "t", "r", "u", "e">>,   \* not true
       <<"m", "o", "s", "t", "l", "y", " ", "f", "a", "l", "s", "e">> >>   \* mostly false

true_indicators ==
    << <<"c", "o", "r", "r", "e", "c", "t">>,   \* correct
       <<"t", "r", "u", "e">>,   \* true
       <<"a", "c", "c", "u", "r", "a", "t", "e">>,   \* accurate
       <<"v", "e", "r", "i", "f", "i", "e", "d">>,   \* verified
       <<"c", "o", "n", "f", "i", "r", "m", "e", "d">>,   \* confirmed
       <<"s", "u", "p", "p", "o", "r", "t", "e", "d", " ", "b", "y", " ", "e", "v", "i", "d", "e", "n", "c", "e">>,   \* supported by evidence
       <<"f", "a", "c", "t", "u", "a", "l">>,   \* factual
       <<"m", "o", "s", "t", "l", "y", " ", "t", "r", "u", "e">> >>   \* mostly true

\* any(indicator in rating_lower for indicator in indicators)
AnyIndicatorIn(indicators, rating_lower) ==
    \E k \in DOMAIN indicators : Contains(indicators[k], rating_lower)

\* variant: the truth indicators are looked for first
interpret_rating_truth_first(textual_rating) ==
    IF ~Truthy(textual_rating) THEN "no_data"
    ELSE IF textual_rating.type # "string" THEN "AttributeError"
    ELSE LET rating_lower == lower(textual_rating.chars)
         IN  IF AnyIndicatorIn(true_indicators, rating_lower) THEN "match"
             ELSE IF AnyIndicatorIn(false_indicators, rating_lower) THEN "mismatch"
             ELSE "no_data"

\* The value is "match", "mismatch" or "no_data"; "AttributeError" stands for
\* the exception raised by textual_rating.lower() on a truthy value that is
\* not a str.
interpret_rating(textual_rating) ==
    IF ~Truthy(textual_rating) THEN "no_data"
    ELSE IF textual_rating.type # "string" THEN "AttributeError"
    ELSE LET rating_lower == lower(textual_rating.chars)
         IN  IF AnyIndicatorIn(false_indicators, rating_lower) THEN "mismatch"
             ELSE IF AnyIndicatorIn(true_indicators, rating_lower) THEN "match"
             ELSE "no_data"

\* rating texts of the provider's reviews
RatingEmpty == <<>>   \* (empty)
RatingFalse == <<"F", "a", "l", "s", "e">>   \* False
RatingTrue == <<"T", "r", "u", "e">>   \* True
RatingMostlyTrue == <<"M", "o", "s", "t", "l", "y", " ", "T", "r", "u", "e">>   \* Mostly True
RatingUnverified == <<"U", "n", "v", "e", "r", "i", "f", "i", "e", "d">>   \* Unverified
RatingSatire == <<"S", "a", "t", "i", "r", "e">>   \* Satire
RatingUnconfirmed == <<"U", "n", "c", "o", "n", "f", "i", "r", "m", "e", "d">>   \* Unconfirmed
RatingMixed == <<"m", "o", "s", "t", "l", "y", " ", "f", "a", "l", "s", "e", ",", " ", "t", "h", "o", "u", "g", "h", " ", "s", "o", "m", "e", " ", "s", "a", "y", " ", "i", "t", "'", "s", " ", "a", "c", "c", "u", "r", "a", "t", "e">>   \* mostly false, though some say it's accurate

-----------------------------------------------------------------------------
(* GoogleFactCheckAPI.retry_with_backoff, the same text in                 *)
(* src/src/factchecker.py and src/src/services/fact_check_service.py       *)

\* the default of the parameter max_retries
max_retries == 3

\* What func does on one call: it raises, or it returns a response.
Raises(e) == [kind |-> "exception", error |-> e]
Responds(code) == [kind |-> "response", status_code |-> code]

\* time.sleep(uniform(0.5, 1.5)) before a request
PreRequestSleep == [what |-> "pre_request"]
\* time.sleep((2 ** attempt) + uniform(0, 1)) after a failed attempt
BackoffSleep(attempt) == [what |-> "backoff", attempt |-> attempt]

\* How long a sleep lasts, in tenths of a second: at least min, and less than
\* sup (uniform(0, 1) is 0 + 1 * random() with random() in [0, 1)) or, for the
\* delay before a request, at most max.
SleepSeconds(sleep) ==
    IF sleep.what = "pre_request" THEN [min |-> 5, max |-> 15]
    ELSE [min |-> (2 ^ sleep.attempt) * 10, sup |-> (2 ^ sleep.attempt) * 10 + 10]

\* The loop of wrapper from iteration `attempt` on.  outcomes[k + 1] is what
\* the k-th call of func does; calls counts the calls of func made so far,
\* sleeps lists the sleeps taken so far and result is the last response.
\* The value is the way wrapper ends: it returns a response or raises.
RECURSIVE RetryLoop(_, _, _, _, _)
RetryLoop(attempt, outcomes, calls, sleeps, result) ==
    IF attempt = max_retries
    THEN [kind |-> "return", response |-> result, calls |-> calls, sleeps |-> sleeps]
    ELSE LET o      == outcomes[attempt + 1]
             slept  == Append(sleeps, PreRequestSleep)
         IN  IF o.kind = "response"
             THEN IF o.status_code # 403
                  THEN [kind |-> "return", response |-> o, calls |-> calls + 1,
                        sleeps |-> slept]
                  ELSE RetryLoop(attempt + 1, outcomes, calls + 1,
                                 Append(slept, BackoffSleep(attempt)), o)
             ELSE IF attempt = max_retries - 1
                  THEN [kind |-> "raise", error |-> o.error, calls |-> calls + 1,
                        sleeps |-> slept]
                  ELSE RetryLoop(attempt + 1, outcomes, calls + 1,
                                 Append(slept, BackoffSleep(attempt)), result)

\* variant: a 403 on the last attempt is raised as an error
retry_with_backoff_raise_on_403(outcomes) ==
    LET r == RetryLoop(0, outcomes, 0, <<>>, Responds(403))
    IN  IF r.kind = "return" /\ r.response.status_code = 403
        THEN [kind |-> "raise", error |-> "HTTPStatusError", calls |-> r.calls,
              sleeps |-> r.sleeps]
        ELSE r

\* variant: an exception on the first attempt is raised at once
retry_with_backoff_raise_first(outcomes) ==
    IF outcomes[1].kind = "exception"
    THEN [kind |-> "raise", error |-> outcomes[1].error, calls |-> 1,
          sleeps |-> <<PreRequestSleep>>]
    ELSE RetryLoop(0, outcomes, 0, <<>>, Responds(403))

retry_with_backoff(outcomes) == RetryLoop(0, outcomes, 0, <<>>, Responds(403))

-----------------------------------------------------------------------------
(* GoogleFactCheckAPI.check_claim                                          *)
(*                                                                         *)
(* What the provider does on one check_claim is a record                   *)
(*   [attempts |-> what each call of httpx.get does,                       *)
(*    body     |-> the body of the response that is returned]              *)
(* where body is [kind |-> "not_json"] (response.json() raises) or         *)
(* [kind |-> "json", value |-> the JSON value].                            *)
(*                                                                         *)
(* A step that can raise has the value [error |-> <<>>, ...] when it       *)
(* succeeds and [error |-> <<name of the exception>>] when it raises.      *)

Ok(v) == [error |-> None, value |-> v]
Err(e) == [error |-> Some(e)]

\* `for x in v`: the elements, or the exception of iterating v or of the
\* first use of an element that is not what the loop body expects (a
\* character of a str, a key of a dict)
Iterate(v) ==
    CASE v.type = "array"  -> Ok(v.items)
      [] v.type = "string" -> IF v.chars = <<>> THEN Ok(<<>>) ELSE Err("AttributeError")
      [] v.type = "object" -> IF v.fields = <<>> THEN Ok(<<>>) ELSE Err("AttributeError")
      [] OTHER             -> Err("TypeError")

\* src/src/factchecker.py: the body of the loop over the reviews, the entry
\* appended to all_reviews
ReviewEntry(rev) ==
    IF rev.type # "object" THEN Err("AttributeError")
    ELSE LET textual_rating == Get(rev.fields, "textualRating", JStr(<<>>))
             interpreted    == interpret_rating(textual_rating)
             publisher      == Get(rev.fields, "publisher", JObj(<<>>))
         IN  IF interpreted = "AttributeError" THEN Err("AttributeError")
             ELSE IF publisher.type # "object" THEN Err("AttributeError")
             ELSE Ok([url                |-> Get(rev.fields, "url", JStr(<<>>)),
                      publisher_name     |-> Get(publisher.fields, "name", JStr(<<>>)),
                      title              |-> Get(rev.fields, "title", JStr(<<>>)),
                      textual_rating     |-> textual_rating,
                      interpreted_rating |-> interpreted])

\* src/src/services/fact_check_service.py: the body of the loop over the
\* reviews, rev.copy() with the key interpreted_rating set
ReviewCopy(rev) ==
    IF rev.type # "object" THEN Err("AttributeError")
    ELSE LET interpreted ==
                 interpret_rating(Get(rev.fields, "textualRating", JStr(<<>>)))
         IN  IF interpreted = "AttributeError" THEN Err("AttributeError")
             ELSE Ok([k \in DOMAIN rev.fields \cup {"interpreted_rating"} |->
                         IF k = "interpreted_rating" THEN interpreted
                         ELSE rev.fields[k]])

\* The two versions of check_claim differ in the entry they keep of a review
\* and in the evidence they return.
Versions == {"factchecker", "service"}

EntryOf(version, rev) ==
    IF version = "factchecker" THEN ReviewEntry(rev) ELSE ReviewCopy(rev)

\* the inner loop `for rev in reviews`, from all_reviews = done on
RECURSIVE ReviewLoop(_, _, _)
ReviewLoop(revs, done, version) ==
    IF revs = <<>> THEN Ok(done)
    ELSE LET e == EntryOf(version, revs[1])
         IN  IF e.error # None THEN e
             ELSE ReviewLoop(Tail(revs), Append(done, e.value), version)

\* the outer loop `for item in claims`, from all_reviews = done on
RECURSIVE ClaimLoop(_, _, _)
ClaimLoop(items, done, version) ==
    IF items = <<>> THEN Ok(done)
    ELSE IF items[1].type # "object" THEN Err("AttributeError")
    ELSE LET reviews == Iterate(Get(items[1].fields, "claimReview", JArr(<<>>)))
         IN  IF reviews.error # None THEN reviews
             ELSE LET r == ReviewLoop(reviews.value, done, version)
                  IN  IF r.error # None THEN r
                      ELSE ClaimLoop(Tail(items), r.value, version)

\* the number of entries of all_reviews interpreted as v
CountInterpreted(all_reviews, v) ==
    Cardinality({i \in DOMAIN all_reviews : all_reviews[i].interpreted_rating = v})

\* variant: reviews on both sides give a fifth value
final_verification_mixed(match_count, mismatch_count) ==
    IF match_count = 0 /\ mismatch_count = 0 THEN "no_data"
    ELSE IF match_count > 0 /\ mismatch_count = 0 THEN "match"
    ELSE IF mismatch_count > 0 /\ match_count = 0 THEN "mismatch"
    ELSE "mixed"

\* variant: the side with more reviews wins
final_verification_majority(match_count, mismatch_count) ==
    IF match_count = 0 /\ mismatch_count = 0 THEN "no_data"
    ELSE IF match_count > mismatch_count THEN "match"
    ELSE IF mismatch_count > match_count THEN "mismatch"
    ELSE "conflicting"

\* the combination of the reviews' ratings into one verification
final_verification(match_count, mismatch_count) ==
    IF match_count = 0 /\ mismatch_count = 0 THEN "no_data"
    ELSE IF match_count > 0 /\ mismatch_count = 0 THEN "match"
    ELSE IF mismatch_count > 0 /\ match_count = 0 THEN "mismatch"
    ELSE "conflicting"

GoogleSourceName == "Google Fact Check Tools Claims"

\* no_data_result(api_response_text)
no_data_result(api_response_text) ==
    [source_name  |-> GoogleSourceName,
     verification |-> "no_data",
     evidence     |-> [api_response |-> api_response_text],
     source_url   |-> ""]

\* the record returned by the handler `except Exception as e`
GoogleErrorRecord(e) ==
    [source_name  |-> GoogleSourceName,
     verification |-> "no_data",
     evidence     |-> [error |-> e],
     source_url   |-> ""]

\* an exception that leaves a function: the function raises e
Raised(e) == [raised |-> e]

\* src/src/factchecker.py: "evidence": {"claim_reviews": all_reviews}
\* src/src/services/fact_check_service.py:
\* "evidence": {"claim_reviews": all_reviews, "raw_data": data}
EvidenceOf(version, all_reviews, data) ==
    IF version = "factchecker" THEN [claim_reviews |-> all_reviews]
    ELSE [claim_reviews |-> all_reviews, raw_data |-> data]

\* The try block after the request, for a response with status 200.
GoogleTryBody(body, version) ==
    IF body.kind = "not_json" THEN GoogleErrorRecord("JSONDecodeError")
    ELSE IF body.value.type # "object" THEN GoogleErrorRecord("AttributeError")
    ELSE LET data   == body.value.fields
             claims == Get(data, "claims", JArr(<<>>))
         IN  IF ~Truthy(claims)
             THEN no_data_result(<<"No claims returned by Google">>)
             ELSE LET items == Iterate(claims)
                  IN  IF items.error # None THEN GoogleErrorRecord(items.error[1])
                      ELSE LET all == ClaimLoop(items.value, <<>>, version)
                           IN  IF all.error # None THEN GoogleErrorRecord(all.error[1])
                               ELSE IF all.value = <<>>
                               THEN no_data_result(<<"No claimReview data found">>)
                               ELSE [source_name  |-> GoogleSourceName,
                                     verification |->
                                        final_verification(
                                            CountInterpreted(all.value, "match"),
                                            CountInterpreted(all.value, "mismatch")),
                                     evidence     |-> EvidenceOf(version, all.value, data),
                                     source_url   |-> ""]

\* src/src/factchecker.py, GoogleFactCheckAPI.check_claim
GoogleFactCheckAPI_check_claim(provider) ==
    LET got == retry_with_backoff(provider.attempts)
    IN  IF got.kind = "raise" THEN GoogleErrorRecord(got.error)
        ELSE IF got.response.status_code # 200
        THEN no_data_result(<<"Status code:", got.response.status_code>>)
        ELSE GoogleTryBody(provider.body, "factchecker")

\* variant: the exception of the last attempt is not handled
Service_GoogleFactCheckAPI_check_claim_unhandled(provider) ==
    LET got == retry_with_backoff(provider.attempts)
    IN  IF got.kind = "raise" THEN Raised(got.error)
        ELSE IF got.response.status_code # 200
        THEN no_data_result(<<"Status code:", got.response.status_code>>)
        ELSE GoogleTryBody(provider.body, "service")

\* src/src/services/fact_check_service.py, GoogleFactCheckAPI.check_claim
Service_GoogleFactCheckAPI_check_claim(provider) ==
    LET got == retry_with_backoff(provider.attempts)
    IN  IF got.kind = "raise" THEN GoogleErrorRecord(got.error)
        ELSE IF got.response.status_code # 200
        THEN no_data_result(<<"Status code:", got.response.status_code>>)
        ELSE GoogleTryBody(provider.body, "service")

-----------------------------------------------------------------------------
(* LLMFactCheckAPI.check_claim                                             *)
(*                                                                         *)
(* What the model call does is [kind |-> "exception", error |-> e] (the    *)
(* call, or reading response.choices[0].message.content, raises),          *)
(* [kind |-> "not_json"] (json.loads raises) or                            *)
(* [kind |-> "json", value |-> the JSON value of the reply].               *)

\* variant: the record of the handler carries full confidence
LLMErrorRecord_confident(e) ==
    [source_name  |-> "LLM Fact Checker",
     verification |-> "no_data",
     evidence     |-> [error |-> e, confidence |-> JNum(10)],
     source_url   |-> ""]

\* src/src/factchecker.py: the record of the handler `except Exception as e`
LLMErrorRecord(e) ==
    [source_name  |-> "LLM Fact Checker",
     verification |-> "no_data",
     evidence     |-> [error |-> e, confidence |-> JNum(0)],
     source_url   |-> ""]

\* mapping = {"true": "match", "false": "mismatch", "uncertain": "no_data"};
\* mapping.get(verdict, "no_data")
VerdictMapping(verdict) ==
    CASE verdict = "true"  -> "match"
      [] verdict = "false" -> "mismatch"
      [] OTHER             -> "no_data"

\* The calls of the model API that check_claim makes when the first call
\* does `reply`: the one call of line 180; there is no loop and the handler
\* makes no call.
LLMFactCheckAPI_calls(reply) == <<"chat.completions.create">>

\* src/src/factchecker.py, LLMFactCheckAPI.check_claim
LLMFactCheckAPI_check_claim(reply) ==
    IF reply.kind = "exception" THEN LLMErrorRecord(reply.error)
    ELSE IF reply.kind = "not_json" THEN LLMErrorRecord("JSONDecodeError")
    ELSE IF reply.value.type # "object" THEN LLMErrorRecord("AttributeError")
    ELSE LET result_json == reply.value.fields
             verdict     == Get(result_json, "verdict", JStr(WordChars.uncertain))
         IN  IF verdict.type # "string" THEN LLMErrorRecord("AttributeError")
             ELSE [source_name  |-> "LLM Fact Checker",
                   verification |-> VerdictMapping(PyValue(JStr(lower(verdict.chars)))),
                   evidence     |->
                      [explanation     |-> Get(result_json, "explanation", JStr(<<>>)),
                       reference_links |-> Get(result_json, "reference_links", JArr(<<>>)),
                       confidence      |-> Get(result_json, "confidence", JNum(0))],
                   source_url   |-> ""]

\* self.model
LLMModel == "gpt-4"

\* src/src/services/fact_check_service.py: the record of the handler
\* `except Exception as e`
Service_LLMErrorRecord(e) ==
    [source_name  |-> LLMModel,
     verification |-> "no_data",
     evidence     |-> [explanation     |-> PyStr("Error processing with {}: {}",
                                                 <<LLMModel, e>>),
                       reference_links |-> JArr(<<>>),
                       confidence      |-> JNum(0)]]

\* all(k in v for k in keys) for a JSON value v: the keys of a dict; for a
\* list or a str of the replies considered here no key is found; for a
\* number or None the test itself raises
HasKeys(v, keys) ==
    CASE v.type = "object"                -> Ok(keys \subseteq DOMAIN v.fields)
      [] v.type \in {"array", "string"}   -> Ok(FALSE)
      [] OTHER                            -> Err("TypeError")

\* variant: the call is made again when the first reply is not JSON
Service_LLMFactCheckAPI_calls_again(reply) ==
    IF reply.kind = "not_json"
    THEN <<"chat.completions.create", "chat.completions.create">>
    ELSE <<"chat.completions.create">>

\* The calls of the model API that check_claim makes when the first call
\* does `reply`: the one call of line 207; there is no loop and the handler
\* makes no call.
Service_LLMFactCheckAPI_calls(reply) == <<"chat.completions.create">>

\* variant: keys that the reply lacks get defaults
Service_LLMFactCheckAPI_check_claim_defaults(reply) ==
    IF reply.kind = "exception" THEN Service_LLMErrorRecord(reply.error)
    ELSE IF reply.kind = "not_json" THEN Service_LLMErrorRecord("JSONDecodeError")
    ELSE IF reply.value.type # "object" THEN Service_LLMErrorRecord("AttributeError")
    ELSE LET result_json == reply.value.fields
             evidence    == Get(result_json, "evidence", JObj(<<>>))
         IN  IF evidence.type # "object" THEN Service_LLMErrorRecord("AttributeError")
             ELSE [source_name  |-> LLMModel,
                   verification |->
                       PyValue(Get(result_json, "verification", JStr(WordChars.no_data))),
                   evidence     |->
                      [explanation     |-> Get(evidence.fields, "summary", JStr(<<>>)),
                       reference_links |-> Get(evidence.fields, "reference_links",
                                               JArr(<<>>)),
                       confidence      |-> Get(result_json, "confidence", JNum(0))]]

\* src/src/services/fact_check_service.py, LLMFactCheckAPI.check_claim
Service_LLMFactCheckAPI_check_claim(reply) ==
    IF reply.kind = "exception" THEN Service_LLMErrorRecord(reply.error)
    ELSE IF reply.kind = "not_json" THEN Service_LLMErrorRecord("JSONDecodeError")
    ELSE LET top == HasKeys(reply.value, {"verification", "confidence", "evidence"})
         IN  IF top.error # None THEN Service_LLMErrorRecord(top.error[1])
             ELSE IF ~top.value
             THEN Service_LLMErrorRecord("Invalid response format from LLM")
             ELSE LET result_json == reply.value.fields
                      ev == HasKeys(result_json.evidence, {"summary", "reference_links"})
                  IN  IF ev.error # None THEN Service_LLMErrorRecord(ev.error[1])
                      ELSE IF ~ev.value
                      THEN Service_LLMErrorRecord("Invalid evidence format from LLM")
                      ELSE [source_name  |-> LLMModel,
                            verification |-> PyValue(result_json.verification),
                            evidence     |->
                               [explanation     |-> result_json.evidence.fields.summary,
                                reference_links |->
                                    result_json.evidence.fields.reference_links,
                                confidence      |-> result_json.confidence]]

-----------------------------------------------------------------------------
(* Specification SpecAggregate: aggregate_source_results as a pure function *)

BatchIdle == batch_in = <<>> /\ batch_times = <<>> /\ batch_out = None

AdaptersIdle ==
    /\ google_provider = None /\ llm_reply = None /\ adapter = "" /\ adapter_out = None
    /\ retry_trace = None
    /\ llm_calls = <<>>

FactCheckerIdle ==
    /\ fc_claims = <<>> /\ fc_pc = "idle" /\ fc_llm_result = None /\ fc_elapsed = 0
    /\ fc_processing_times = <<>> /\ fc_claims_results = <<>> /\ fc_out = None
    /\ fc_calls = <<>> /\ fc_measured = <<>>

RatingIdle == rating_text = <<>> /\ rating_out = None

VideosIdle ==
    /\ vd_docs = <<>> /\ vd_stored = <<>> /\ vd_tasks = <<>> /\ vd_todo = <<>>
    /\ vd_response = None

ServiceIdle ==
    /\ sv_claims = <<>> /\ sv_pc = "idle" /\ sv_in_flight = {} /\ sv_reply = None
    /\ sv_provider = None /\ sv_llm_res = None /\ sv_google_res = None
    /\ sv_results = <<>> /\ sv_out = None

InitAggregate ==
    /\ source_results \in SeqUpTo(SourceRecord, MaxSources)
    /\ agg_out = None
    /\ alt_results = <<>>
    /\ alt_out = None
    /\ BatchIdle
    /\ AdaptersIdle
    /\ FactCheckerIdle
    /\ ServiceIdle
    /\ RatingIdle
    /\ VideosIdle

\* one call aggregate_source_results(source_results)
Aggregate ==
    /\ agg_out = None
    /\ agg_out' = Some(aggregate_source_results(source_results))
    /\ UNCHANGED <<source_results, alt_results, alt_out, notAggVars>>

\* a second call, on a list with the same verification at every position
\* and any per-source confidences
AggregateAgain ==
    /\ agg_out # None
    /\ alt_out = None
    /\ \E cs \in [DOMAIN source_results -> AggConfidences] :
          /\ alt_results' = [i \in DOMAIN source_results |->
                                [verification |-> source_results[i].verification,
                                 confidence   |-> cs[i]]]
          /\ alt_out' = Some(aggregate_source_results(alt_results'))
    /\ UNCHANGED <<source_results, agg_out, notAggVars>>

\* a second call, on the same records in another order
AggregatePermuted ==
    /\ agg_out # None
    /\ alt_out = None
    /\ \E order \in Permutations(DOMAIN source_results) :
          /\ alt_results' = [i \in DOMAIN source_results |-> source_results[order[i]]]
          /\ alt_out' = Some(aggregate_source_results(alt_results'))
    /\ UNCHANGED <<source_results, agg_out, notAggVars>>

NextAggregate == Aggregate \/ AggregateAgain \/ AggregatePermuted

SpecAggregate == InitAggregate /\ [][NextAggregate]_vars

-----------------------------------------------------------------------------
(* Specification SpecBatch: aggregate_verdicts as a pure function *)

\* the claim texts of the batches
ClaimTexts == {"earth is flat", "water boils at 100C"}

Src(v) == [verification |-> v, confidence |-> 10]

\* The source lists of the claims of a batch.  A batch result depends on a
\* claim's sources only through aggregate_source_results, which SpecAggregate
\* covers on every list; these lists reach each of its branches and the
\* confidences 0, 1/2, 2/3, 4/5 and 1.
BatchSources ==
    { <<>>,
      <<Src("no_data")>>,
      <<Src("match")>>,
      <<Src("mismatch")>>,
      <<Src("conflicting")>>,
      <<Src("match"), Src("mismatch")>>,
      <<Src("mismatch"), Src("match"), Src("mismatch")>>,
      <<Src("match"), Src("match"), Src("mismatch"), Src("match"), Src("match")>> }

ClaimResult ==
    [claim_text : ClaimTexts, checked_sources : BatchSources, source_context : {""}]

\* processing times (seconds) of the timing maps
BatchSeconds == {2}

AggregateIdle ==
    source_results = <<>> /\ agg_out = None /\ alt_results = <<>> /\ alt_out = None

InitBatch ==
    /\ batch_in \in SeqUpTo(ClaimResult, MaxBatch)
    /\ batch_times \in UNION {[D -> BatchSeconds] : D \in SUBSET ClaimTexts}
    /\ batch_out = None
    /\ AggregateIdle
    /\ AdaptersIdle
    /\ FactCheckerIdle
    /\ ServiceIdle
    /\ RatingIdle
    /\ VideosIdle

\* one call aggregate_verdicts(batch_in, batch_times)
AggregateVerdicts ==
    /\ batch_out = None
    /\ batch_out' = Some(aggregate_verdicts(batch_in, batch_times))
    /\ UNCHANGED <<batch_in, batch_times, notBatchVars>>

NextBatch == AggregateVerdicts

SpecBatch == InitBatch /\ [][NextBatch]_vars

-----------------------------------------------------------------------------
(* Specification SpecAdapters: one check_claim of each source adapter, on  *)
(* what the provider can do                                                *)

\* most claims in one reply of the Google provider
MaxItems == 2

Url == JStr(<<"h", "t", "t", "p", ":", "/", "/", "r">>)
Publisher == JObj([name |-> JStr(<<"S", "n", "o", "p", "e", "s">>)])

\* reviews of the Google provider
Review(rating) ==
    JObj([textualRating |-> JStr(rating), url |-> Url, publisher |-> Publisher])
\* a review without the key textualRating
ReviewNoRating == JObj([url |-> Url, publisher |-> Publisher])
\* a review whose textualRating is null
ReviewNullRating == JObj([textualRating |-> JNull, url |-> Url, publisher |-> Publisher])
\* a review whose textualRating is a number
ReviewNumberRating ==
    JObj([textualRating |-> JNum(50), url |-> Url, publisher |-> Publisher])
\* a review whose publisher is a string
ReviewStringPublisher ==
    JObj([textualRating |-> JStr(RatingTrue), url |-> Url,
          publisher |-> JStr(<<"S", "n", "o", "p", "e", "s">>)])

\* the lists of reviews of one claim of a reply
GoogleReviewLists ==
    { <<>>,
      <<Review(RatingFalse)>>,
      <<Review(RatingTrue)>>,
      <<Review(RatingSatire)>>,
      <<Review(RatingUnverified)>>,
      <<Review(RatingTrue), Review(RatingFalse)>>,
      <<Review(RatingMostlyTrue), Review(RatingTrue)>>,
      <<Review(RatingMixed), Review(RatingSatire)>>,
      <<ReviewNoRating>>,
      <<Review(RatingTrue), ReviewNullRating>>,
      <<Review(RatingTrue), ReviewNumberRating>>,
      <<ReviewStringPublisher>>,
      <<Review(RatingFalse), JStr(<<"x">>)>> }

\* the claims of a reply: with a list of reviews, without the key
\* claimReview, with claimReview null, and an item that is no dict
GoogleItems ==
    {JObj([claimReview |-> JArr(l)]) : l \in GoogleReviewLists}
    \cup {JObj([text |-> JStr(<<"c">>)]), JObj([claimReview |-> JNull]), JNum(10)}

Json(v) == [kind |-> "json", value |-> v]
NotJson == [kind |-> "not_json"]

\* the bodies of a response with status 200
GoogleBodies ==
    {NotJson, Json(JNull), Json(JArr(<<>>)), Json(JObj(<<>>)),
     Json(JObj([claims |-> JNull])), Json(JObj([claims |-> JStr(<<"n", "o", "n", "e">>)]))}
    \cup {Json(JObj([claims |-> JArr(items)])) : items \in SeqUpTo(GoogleItems, MaxItems)}

\* what one call of httpx.get does when the wrapper goes on to another
\* attempt, and when it does not
RetriedAttempts == {Raises("ConnectError"), Raises("ReadTimeout"), Responds(403)}
FinalResponses == {Responds(200), Responds(404), Responds(500)}

\* the calls of httpx.get of one check_claim: retried attempts followed by a
\* response that is returned, or max_retries retried attempts
GoogleAttempts ==
    {Append(f, r) : f \in SeqUpTo(RetriedAttempts, max_retries - 1), r \in FinalResponses}
    \cup [1..max_retries -> RetriedAttempts]

NoBody == [kind |-> "none"]

\* the body is read only from a response with status 200
GoogleProviders ==
    {[attempts |-> a, body |-> b] :
        a \in {x \in GoogleAttempts : x[Len(x)] = Responds(200)}, b \in GoogleBodies}
    \cup {[attempts |-> a, body |-> NoBody] :
             a \in {x \in GoogleAttempts : x[Len(x)] # Responds(200)}}

\* replies of the model: the values of the keys of a JSON object
ReplyVerifications ==
    {JStr(WordChars.match), JStr(WordChars.mismatch), JStr(WordChars.no_data),
     JStr(WordChars.conflicting), JStr(WordChars.uncertain), JNull}
ReplyVerdicts ==
    {JStr(WordChars.true), JStr(<<"T", "R", "U", "E">>), JStr(WordChars.false),
     JStr(WordChars.uncertain), JStr(<<"m", "a", "y", "b", "e">>), JNull}
ReplyConfidences == {JNum(3), JNum(8), JNum(10), JStr(<<"h", "i", "g", "h">>)}
Links == JArr(<<Url>>)
Summary == JStr(<<"w", "h", "y">>)
ReplyEvidences ==
    {JObj([summary |-> Summary, reference_links |-> Links]),
     JObj([summary |-> Summary]),
     JObj([reference_links |-> Links]),
     JObj(<<>>), JNull, JStr(<<"s", "u", "m", "m", "a", "r", "y">>)}

\* a record without its key k
Without(d, k) == [x \in DOMAIN d \ {k} |-> d[x]]

\* replies in the format asked for by src/src/services/fact_check_service.py,
\* complete or with one key missing
ServiceReplyObjects ==
    LET full == {[verification |-> v, confidence |-> c, evidence |-> e] :
                    v \in ReplyVerifications, c \in ReplyConfidences, e \in ReplyEvidences}
    IN  full \cup {Without(d, k) : d \in full, k \in {"verification", "confidence", "evidence"}}

\* replies in the format asked for by src/src/factchecker.py, complete or
\* with one key missing
FactCheckerReplyObjects ==
    LET full == {[verdict |-> v, confidence |-> c, explanation |-> Summary,
                  reference_links |-> Links] :
                    v \in ReplyVerdicts, c \in ReplyConfidences}
    IN  full \cup {Without(d, k) : d \in full, k \in {"verdict", "confidence"}}

LLMReplies ==
    {[kind |-> "exception", error |-> e] : e \in {"APITimeoutError", "RateLimitError"}}
    \cup {NotJson, Json(JNull), Json(JArr(<<>>)), Json(JStr(WordChars.match)), Json(JNum(10))}
    \cup {Json(JObj(d)) : d \in ServiceReplyObjects \cup FactCheckerReplyObjects}

InitAdapters ==
    /\ \/ google_provider \in {Some(g) : g \in GoogleProviders} /\ llm_reply = None
       \/ google_provider = None /\ llm_reply \in {Some(r) : r \in LLMReplies}
    /\ adapter = ""
    /\ adapter_out = None
    /\ retry_trace = None
    /\ llm_calls = <<>>
    /\ AggregateIdle
    /\ BatchIdle
    /\ FactCheckerIdle
    /\ ServiceIdle
    /\ RatingIdle
    /\ VideosIdle

\* src/src/factchecker.py: GoogleFactCheckAPI().check_claim(claim)
GoogleCheckClaim ==
    /\ google_provider # None /\ adapter_out = None
    /\ adapter' = "factchecker.GoogleFactCheckAPI"
    /\ adapter_out' = Some(GoogleFactCheckAPI_check_claim(google_provider[1]))
    /\ retry_trace' = Some(retry_with_backoff(google_provider[1].attempts))
    /\ UNCHANGED <<google_provider, llm_reply, llm_calls, notAdapterVars>>

\* src/src/services/fact_check_service.py: GoogleFactCheckAPI(key).check_claim(claim)
ServiceGoogleCheckClaim ==
    /\ google_provider # None /\ adapter_out = None
    /\ adapter' = "service.GoogleFactCheckAPI"
    /\ adapter_out' = Some(Service_GoogleFactCheckAPI_check_claim(google_provider[1]))
    /\ retry_trace' = Some(retry_with_backoff(google_provider[1].attempts))
    /\ UNCHANGED <<google_provider, llm_reply, llm_calls, notAdapterVars>>

\* src/src/factchecker.py: LLMFactCheckAPI().check_claim(claim)
LLMCheckClaim ==
    /\ llm_reply # None /\ adapter_out = None
    /\ adapter' = "factchecker.LLMFactCheckAPI"
    /\ adapter_out' = Some(LLMFactCheckAPI_check_claim(llm_reply[1]))
    /\ llm_calls' = LLMFactCheckAPI_calls(llm_reply[1])
    /\ UNCHANGED <<google_provider, llm_reply, retry_trace, notAdapterVars>>

\* src/src/services/fact_check_service.py: LLMFactCheckAPI(key).check_claim(claim)
ServiceLLMCheckClaim ==
    /\ llm_reply # None /\ adapter_out = None
    /\ adapter' = "service.LLMFactCheckAPI"
    /\ adapter_out' = Some(Service_LLMFactCheckAPI_check_claim(llm_reply[1]))
    /\ llm_calls' = Service_LLMFactCheckAPI_calls(llm_reply[1])
    /\ UNCHANGED <<google_provider, llm_reply, retry_trace, notAdapterVars>>

NextAdapters ==
    \/ GoogleCheckClaim
    \/ ServiceGoogleCheckClaim
    \/ LLMCheckClaim
    \/ ServiceLLMCheckClaim

SpecAdapters == InitAdapters /\ [][NextAdapters]_vars

-----------------------------------------------------------------------------
(* Properties of aggregate_source_results, checked under SpecAggregate *)

\* the number of records of the input list with verification v
InputCount(v) ==
    Cardinality({i \in DOMAIN source_results : source_results[i].verification = v})

Aggregated == agg_out # None
AggStatus == agg_out[1].verdict.status
AggConfidence == agg_out[1].verdict.confidence

\* C1: a list with at least one 'conflicting' record gets status
\* 'conflicting' and confidence exactly 0.5, whatever the numbers of match,
\* mismatch and no_data records.
C1_ConflictingDominates ==
    (Aggregated /\ InputCount("conflicting") > 0)
        => (AggStatus = "conflicting" /\ AggConfidence = <<1, 2>>)

\* C1 witness: a result for a list with a 'conflicting' record next to a
\* strict majority of 'match' over 'mismatch'.
C1_Witness ==
    /\ Aggregated
    /\ InputCount("conflicting") > 0
    /\ InputCount("match") > InputCount("mismatch")
    /\ AggStatus = "conflicting"

\* C2: with no 'conflicting' record and match_count # mismatch_count the
\* status is 'true' for a match majority and 'false' for a mismatch
\* majority, and the confidence is the larger count over
\* match_count + mismatch_count; 'no_data' records are not in the quotient.
C2_MajorityRule ==
    (Aggregated /\ InputCount("conflicting") = 0
                /\ InputCount("match") # InputCount("mismatch"))
        => LET m  == InputCount("match")
               mm == InputCount("mismatch")
               hi == IF m > mm THEN m ELSE mm
           IN  /\ AggStatus = (IF m > mm THEN "true" ELSE "false")
               \* confidence = hi / (m + mm), as an equation between fractions
               /\ AggConfidence[1] * (m + mm) = hi * AggConfidence[2]
               /\ AggConfidence[2] > 0

\* C2 witness: a 'false' result for a mismatch majority in a list that also
\* holds a 'no_data' record, which the quotient leaves out (confidence 1.0).
C2_Witness ==
    /\ Aggregated
    /\ InputCount("conflicting") = 0
    /\ InputCount("mismatch") > InputCount("match")
    /\ InputCount("no_data") > 0
    /\ AggStatus = "false"
    /\ AggConfidence = <<1, 1>>

\* C3: with no 'conflicting' record and match_count = mismatch_count > 0 the
\* status is 'conflicting' and the confidence exactly 0.5.
C3_TieIsConflicting ==
    (Aggregated /\ InputCount("conflicting") = 0
                /\ InputCount("match") = InputCount("mismatch")
                /\ InputCount("match") > 0)
        => (AggStatus = "conflicting" /\ AggConfidence = <<1, 2>>)

\* C3 witness: a result for a list with one match, one mismatch and no
\* 'conflicting' record.
C3_Witness ==
    /\ Aggregated
    /\ InputCount("conflicting") = 0
    /\ InputCount("match") = 1
    /\ InputCount("mismatch") = 1
    /\ AggStatus = "conflicting"

\* C4: a list with no match, no mismatch and no conflicting record (the
\* empty list, lists of 'no_data' records) gets a result, with status
\* 'unverified' and confidence 0.0, and sources_checked 0 for the empty list.
C4_NoDataIsUnverified ==
    /\ (Aggregated /\ InputCount("match") = 0 /\ InputCount("mismatch") = 0
                   /\ InputCount("conflicting") = 0)
          => /\ AggStatus = "unverified"
             /\ AggConfidence = <<0, 1>>
             /\ (source_results = <<>> => agg_out[1].metadata.sources_checked = 0)
    \* no error: the call always returns
    /\ (~Aggregated => ENABLED Aggregate)

\* C4 witness: a result for a non-empty list made only of 'no_data' records.
C4_Witness ==
    /\ Aggregated
    /\ Len(source_results) >= 2
    /\ InputCount("no_data") = Len(source_results)
    /\ AggStatus = "unverified"

\* C5: for a list whose verifications are all in the vocabulary,
\* sources_checked is the length of the list, sources_with_data is
\* match_count + mismatch_count + conflicting_count, the sources are returned
\* unchanged and in order, and the status is 'unverified' exactly when
\* sources_with_data = 0.
C5_Bookkeeping ==
    (Aggregated /\ \A i \in DOMAIN source_results :
                       source_results[i].verification \in Verification)
        => LET md == agg_out[1].metadata
           IN  /\ md.sources_checked = Len(source_results)
               /\ md.sources_with_data = InputCount("match") + InputCount("mismatch")
                                         + InputCount("conflicting")
               /\ agg_out[1].sources = source_results
               /\ (AggStatus = "unverified") <=> (md.sources_with_data = 0)

\* C5 witness: a result for a list in the vocabulary with a 'no_data' and a
\* 'conflicting' record.
C5_Witness ==
    /\ Aggregated
    /\ \A i \in DOMAIN source_results : source_results[i].verification \in Verification
    /\ InputCount("no_data") > 0
    /\ InputCount("conflicting") > 0
    /\ agg_out[1].metadata.sources_with_data < agg_out[1].metadata.sources_checked

\* C6: two runs on lists with the same verification at every position and
\* arbitrary per-source confidences return the same status and the same
\* claim-level confidence.
C6_SourceConfidenceIgnored ==
    (/\ Aggregated
     /\ alt_out # None
     /\ Len(alt_results) = Len(source_results)
     /\ \A i \in DOMAIN source_results :
           alt_results[i].verification = source_results[i].verification)
        => /\ alt_out[1].verdict.status = AggStatus
           /\ alt_out[1].verdict.confidence = AggConfidence

\* C6 witness: two runs with a computed confidence on lists that differ in a
\* per-source confidence, with both a match and a mismatch in them.
C6_Witness ==
    /\ Aggregated
    /\ alt_out # None
    /\ alt_results # source_results
    /\ InputCount("match") > InputCount("mismatch")
    /\ InputCount("mismatch") > 0
    /\ \E i \in DOMAIN source_results :
          /\ source_results[i].verification = "match"
          /\ alt_results[i].confidence # source_results[i].confidence

-----------------------------------------------------------------------------
(* Properties of aggregate_verdicts, checked under SpecBatch *)

BatchDone == batch_out # None
BatchResults == batch_out[1].aggregated_results
BatchSummaryOut == batch_out[1].summary

\* the positions of the results whose status is 'true' or 'false'
VerifiedPositions ==
    {i \in DOMAIN BatchResults : BatchResults[i].verdict.status \in {"true", "false"}}

\* C7: total_claims is the number of input claim records, verified_claims
\* the number of results with status 'true' or 'false', and
\* unverified_claims = total_claims - verified_claims, so that the two add
\* up to total_claims.
C7_SummaryCounts ==
    BatchDone =>
        /\ BatchSummaryOut.total_claims = Len(batch_in)
        /\ BatchSummaryOut.verified_claims = Cardinality(VerifiedPositions)
        /\ BatchSummaryOut.unverified_claims
              = BatchSummaryOut.total_claims - BatchSummaryOut.verified_claims
        /\ BatchSummaryOut.verified_claims + BatchSummaryOut.unverified_claims
              = BatchSummaryOut.total_claims

\* C7 witness: the summary of a batch with a 'true', a 'conflicting' and an
\* 'unverified' result.
C7_Witness ==
    /\ BatchDone
    /\ Len(batch_in) = 3
    /\ \E i, j, k \in DOMAIN BatchResults :
          /\ BatchResults[i].verdict.status = "true"
          /\ BatchResults[j].verdict.status = "conflicting"
          /\ BatchResults[k].verdict.status = "unverified"
    /\ BatchSummaryOut.verified_claims = 1
    /\ BatchSummaryOut.unverified_claims = 2

\* the product of the denominators of the confidences of results rs
RECURSIVE DenProduct(_)
DenProduct(rs) ==
    IF rs = <<>> THEN 1 ELSE rs[1].verdict.confidence[2] * DenProduct(Tail(rs))

\* d times the sum of the confidences of the 'true' and 'false' results of
\* rs, for d a multiple of their denominators
RECURSIVE VerifiedSumTimes(_, _)
VerifiedSumTimes(rs, d) ==
    IF rs = <<>> THEN 0
    ELSE (IF rs[1].verdict.status \in {"true", "false"}
          THEN rs[1].verdict.confidence[1] * (d \div rs[1].verdict.confidence[2])
          ELSE 0)
         + VerifiedSumTimes(Tail(rs), d)

\* status and confidence of every result, in order
BatchVerdicts ==
    [i \in DOMAIN BatchResults |->
        <<BatchResults[i].verdict.status, BatchResults[i].verdict.confidence>>]

\* C8: average_confidence is the arithmetic mean of the confidences of the
\* 'true' and 'false' results only, and 0.0 when there is none (the empty
\* batch included); confidences 0.8 (true), 1.0 (false) and 0.0 (unverified)
\* give 0.9.
C8_AverageConfidence ==
    BatchDone =>
        LET n   == Cardinality(VerifiedPositions)
            d   == DenProduct(BatchResults)
            avg == BatchSummaryOut.average_confidence
        IN  /\ avg[2] > 0
            /\ n = 0 => avg = <<0, 1>>
            \* avg = (sum of the verified confidences) / n
            /\ n > 0 => avg[1] * n * d = avg[2] * VerifiedSumTimes(BatchResults, d)
            /\ BatchVerdicts = << <<"true", <<4, 5>> >>, <<"false", <<1, 1>> >>,
                                  <<"unverified", <<0, 1>> >> >>
                  => avg = <<9, 10>>

\* C8 witness: the batch of the example, with average 0.9.
C8_Witness ==
    /\ BatchDone
    /\ BatchVerdicts = << <<"true", <<4, 5>> >>, <<"false", <<1, 1>> >>,
                          <<"unverified", <<0, 1>> >> >>
    /\ BatchSummaryOut.average_confidence = <<9, 10>>

\* C8 second case: a batch with results and none verified has average 0.0.
C8_NoneVerified ==
    /\ BatchDone
    /\ Len(batch_in) = 2
    /\ VerifiedPositions = {}
    /\ BatchSummaryOut.average_confidence = <<0, 1>>

-----------------------------------------------------------------------------
(* Specification SpecFactChecker: one run of FactChecker.check_facts of    *)
(* src/src/factchecker.py.  The coroutine is suspended while an adapter    *)
(* call runs in the executor; an action is the code between two awaits.    *)

\* self.llm_confidence_threshold = 0.8, in tenths
llm_confidence_threshold == 8

\* what the model call does during a run
FactCheckerReplies ==
    {[kind |-> "exception", error |-> "APITimeoutError"], NotJson}
    \cup {Json(JObj([verdict |-> JStr(v), confidence |-> c, explanation |-> Summary,
                     reference_links |-> Links])) :
             v \in {WordChars.true, WordChars.false, WordChars.uncertain},
             c \in {JNum(7), JNum(8), JStr(<<"h", "i", "g", "h">>)}}

\* what the Google provider does during a run
FactCheckerProviders ==
    {[attempts |-> <<Responds(200)>>,
      body |-> Json(JObj([claims |-> JArr(<<JObj([claimReview |-> JArr(l)])>>)]))] :
        l \in {<<Review(RatingTrue)>>, <<Review(RatingFalse)>>,
               <<Review(RatingTrue), Review(RatingFalse)>>}}
    \cup {[attempts |-> <<Responds(200)>>, body |-> Json(JObj(<<>>))],
          [attempts |-> [k \in 1..max_retries |-> Responds(403)], body |-> NoBody]}

\* how long one adapter call takes, in seconds
CallSeconds == {1, 2}

\* processing_times[claim] = processing_time
DictSet(d, key, value) ==
    [k \in DOMAIN d \cup {key} |-> IF k = key THEN value ELSE d[k]]

\* llm_result.get("evidence", {}).get("confidence", 0)
ConfidenceOf(llm_result) == Get(Get(llm_result, "evidence", <<>>), "confidence", JNum(0))

\* variant: the threshold itself is not enough
AtLeastThreshold_above(confidence) ==
    IF confidence.type = "number" THEN Ok(confidence.tenths > llm_confidence_threshold)
                                  ELSE Err("TypeError")

\* confidence >= self.llm_confidence_threshold: a comparison of numbers,
\* which raises for a str or None
AtLeastThreshold(confidence) ==
    IF confidence.type = "number" THEN Ok(confidence.tenths >= llm_confidence_threshold)
                                  ELSE Err("TypeError")

\* the entry that check_facts appends for a claim (lines 251-255)
ClaimEntry(claim, result) ==
    [claim_text |-> claim, checked_sources |-> <<result>>, source_context |-> ""]

\* the claim of the current iteration of the loop
CurrentClaim == fc_claims[Len(fc_claims_results) + 1]

InitFactChecker ==
    /\ fc_claims \in SeqUpTo(ClaimTexts, MaxClaims)
    /\ fc_pc = "loop"
    /\ fc_llm_result = None
    /\ fc_elapsed = 0
    /\ fc_processing_times = <<>>
    /\ fc_claims_results = <<>>
    /\ fc_out = None
    /\ fc_calls = <<>>
    /\ fc_measured = <<>>
    /\ AggregateIdle
    /\ BatchIdle
    /\ AdaptersIdle
    /\ ServiceIdle
    /\ RatingIdle
    /\ VideosIdle

\* the loop takes the next claim: start_time = time.time(), and check_fact
\* starts the model call (lines 246-248, 235)
StartClaim ==
    /\ fc_pc = "loop"
    /\ Len(fc_claims_results) < Len(fc_claims)
    /\ fc_pc' = "llm"
    /\ fc_elapsed' = 0
    /\ fc_llm_result' = None
    /\ fc_calls' = <<"llm">>
    /\ UNCHANGED <<fc_claims, fc_processing_times, fc_claims_results, fc_out, fc_measured,
                   notFcVars>>

\* check_fact has returned result: lines 249-255
RecordResult(result, processing_time) ==
    /\ fc_processing_times' = DictSet(fc_processing_times, CurrentClaim, processing_time)
    /\ fc_claims_results' = Append(fc_claims_results, ClaimEntry(CurrentClaim, result))
    /\ fc_measured' = Append(fc_measured, processing_time)
    /\ fc_pc' = "loop"

\* the model call completes: check_fact compares the confidence with the
\* threshold and returns llm_result, starts the Google call, or raises
\* (lines 235-240); check_facts has no handler, so a raise ends the run
LLMReturns ==
    /\ fc_pc = "llm"
    /\ \E reply \in FactCheckerReplies, seconds \in CallSeconds :
          LET llm_result == LLMFactCheckAPI_check_claim(reply)
              enough     == AtLeastThreshold(ConfidenceOf(llm_result))
          IN  /\ fc_llm_result' = Some(llm_result)
              /\ fc_elapsed' = seconds
              /\ IF enough.error # None
                 THEN /\ fc_pc' = "raised"
                      /\ UNCHANGED <<fc_processing_times, fc_claims_results, fc_calls,
                                     fc_measured>>
                 ELSE IF enough.value
                 THEN /\ RecordResult(llm_result, seconds)
                      /\ UNCHANGED fc_calls
                 ELSE /\ fc_pc' = "google"
                      /\ fc_calls' = Append(fc_calls, "google")
                      /\ UNCHANGED <<fc_processing_times, fc_claims_results, fc_measured>>
    /\ UNCHANGED <<fc_claims, fc_out, notFcVars>>

\* the Google call completes: check_fact returns google_result (lines 240-241)
GoogleReturns ==
    /\ fc_pc = "google"
    /\ \E provider \in FactCheckerProviders, seconds \in CallSeconds :
          /\ fc_elapsed' = fc_elapsed + seconds
          /\ RecordResult(GoogleFactCheckAPI_check_claim(provider), fc_elapsed')
    /\ UNCHANGED <<fc_claims, fc_llm_result, fc_out, fc_calls, notFcVars>>

\* the loop is over: return aggregate_verdicts(claims_results, processing_times)
ReturnVerdicts ==
    /\ fc_pc = "loop"
    /\ Len(fc_claims_results) = Len(fc_claims)
    /\ fc_out' = Some(aggregate_verdicts(fc_claims_results, fc_processing_times))
    /\ fc_pc' = "done"
    /\ UNCHANGED <<fc_claims, fc_llm_result, fc_elapsed, fc_processing_times, fc_calls,
                   fc_measured,
                   fc_claims_results, notFcVars>>

NextFactChecker ==
    \/ StartClaim
    \/ LLMReturns
    \/ GoogleReturns
    \/ ReturnVerdicts

SpecFactChecker == InitFactChecker /\ [][NextFactChecker]_vars

-----------------------------------------------------------------------------
(* Properties of the source adapters, checked under SpecAdapters *)

\* The reply has the structure that check_claim reads: a dict whose "claims",
\* when there are any, is a list of dicts; their "claimReview" a list of
\* dicts; a review's "textualRating" a str (or null) and, in
\* src/src/factchecker.py, which reads the publisher's name, its "publisher"
\* a dict.
ExpectedGoogleStructure(v, version) ==
    /\ v.type = "object"
    /\ "claims" \in DOMAIN v.fields =>
          /\ v.fields.claims.type \in {"array", "null"}
          /\ v.fields.claims.type = "array" =>
                \A i \in DOMAIN v.fields.claims.items :
                    LET item == v.fields.claims.items[i]
                    IN  /\ item.type = "object"
                        /\ "claimReview" \in DOMAIN item.fields =>
                              /\ item.fields.claimReview.type = "array"
                              /\ \A j \in DOMAIN item.fields.claimReview.items :
                                    LET rev == item.fields.claimReview.items[j]
                                    IN  /\ rev.type = "object"
                                        /\ "textualRating" \in DOMAIN rev.fields =>
                                              rev.fields.textualRating.type
                                                  \in {"string", "null"}
                                        /\ (version = "factchecker"
                                            /\ "publisher" \in DOMAIN rev.fields) =>
                                              rev.fields.publisher.type = "object"

\* a reply of the expected structure holds at least one review
HasReviews(v) ==
    /\ "claims" \in DOMAIN v.fields
    /\ v.fields.claims.type = "array"
    /\ \E i \in DOMAIN v.fields.claims.items :
          LET item == v.fields.claims.items[i]
          IN  /\ "claimReview" \in DOMAIN item.fields
              /\ item.fields.claimReview.items # <<>>

\* The provider call of a Google adapter failed: the last call of httpx.get
\* raised (an error, a timeout), the response returned is not a 200, its body
\* is not JSON or not of the expected structure, or it holds no review.
GoogleFailure(p, version) ==
    \/ p.attempts[Len(p.attempts)] # Responds(200)
    \/ p.body.kind = "not_json"
    \/ ~ExpectedGoogleStructure(p.body.value, version)
    \/ ~HasReviews(p.body.value)

\* The model call of src/src/services/fact_check_service.py failed: it raised,
\* or the reply is not JSON or not a dict with the keys verification,
\* confidence and evidence, evidence a dict with summary and reference_links.
ServiceLLMFailure(r) ==
    \/ r.kind \in {"exception", "not_json"}
    \/ r.value.type # "object"
    \/ ~({"verification", "confidence", "evidence"} \subseteq DOMAIN r.value.fields)
    \/ r.value.fields.evidence.type # "object"
    \/ ~({"summary", "reference_links"} \subseteq DOMAIN r.value.fields.evidence.fields)

\* The model call of src/src/factchecker.py failed: it raised, or the reply is
\* not JSON, not a dict, or its verdict is not a str.
LLMFailure(r) ==
    \/ r.kind \in {"exception", "not_json"}
    \/ r.value.type # "object"
    \/ ("verdict" \in DOMAIN r.value.fields /\ r.value.fields.verdict.type # "string")

AdapterFailure ==
    CASE adapter = "factchecker.GoogleFactCheckAPI" ->
            GoogleFailure(google_provider[1], "factchecker")
      [] adapter = "service.GoogleFactCheckAPI" ->
            GoogleFailure(google_provider[1], "service")
      [] adapter = "factchecker.LLMFactCheckAPI" -> LLMFailure(llm_reply[1])
      [] adapter = "service.LLMFactCheckAPI" -> ServiceLLMFailure(llm_reply[1])

\* C10: whatever the provider does, check_claim of every adapter returns a
\* record and does not raise, and whenever the provider call failed
\* (exception, timeout, status other than 200, body not of the expected
\* structure, empty result) the record's verification is 'no_data'.
C10_AdaptersNeverRaise ==
    adapter_out # None =>
        /\ "raised" \notin DOMAIN adapter_out[1]
        /\ "verification" \in DOMAIN adapter_out[1]
        /\ AdapterFailure => adapter_out[1].verification = "no_data"

\* C10 witness: the Google adapter of the service has returned a 'no_data'
\* record after httpx.get timed out on all its attempts.
C10_Witness ==
    /\ adapter = "service.GoogleFactCheckAPI"
    /\ adapter_out # None
    /\ google_provider[1].attempts = [k \in 1..max_retries |-> Raises("ReadTimeout")]
    /\ adapter_out[1].verification = "no_data"
    /\ "error" \in DOMAIN adapter_out[1].evidence

\* C10, other cases reached: a record with data from a reply that is in
\* order, and a 'no_data' record from a model reply that is not JSON
C10_NoFailure ==
    /\ adapter_out # None
    /\ ~AdapterFailure
    /\ adapter_out[1].verification = "conflicting"

C10_LLMNotJson ==
    /\ adapter = "service.LLMFactCheckAPI"
    /\ adapter_out # None
    /\ llm_reply[1] = NotJson
    /\ adapter_out[1].verification = "no_data"

-----------------------------------------------------------------------------
(* Properties of FactChecker.check_facts, checked under SpecFactChecker *)

-----------------------------------------------------------------------------
(* FactCheckerService of src/src/services/fact_check_service.py.           *)
(* check_fact builds the pydantic models Evidence and FactCheckSource      *)
(* (src/src/models/schemas.py) from the records of the two adapters; a     *)
(* value that a field does not accept raises ValidationError.              *)

\* summary: str, source_name: str
ValidStr(v) == v.type = "string"

\* HttpUrl: a str with the scheme http or https followed by a host
IsHttpUrl(chars) ==
    \/ Len(chars) > 7 /\ SubSeq(chars, 1, 7) = <<"h", "t", "t", "p", ":", "/", "/">>
    \/ Len(chars) > 8 /\ SubSeq(chars, 1, 8) = <<"h", "t", "t", "p", "s", ":", "/", "/">>

\* reference_links: List[HttpUrl]
ValidLinks(v) ==
    /\ v.type = "array"
    /\ \A i \in DOMAIN v.items :
          /\ v.items[i].type = "string"
          /\ "chars" \in DOMAIN v.items[i]
          /\ IsHttpUrl(v.items[i].chars)

\* confidence: float, ge=0.0, le=1.0 (in tenths)
ValidConfidence(v) == v.type = "number" /\ v.tenths >= 0 /\ v.tenths <= 10

\* Evidence(summary=..., reference_links=..., last_updated=datetime.utcnow())
Evidence(summary, reference_links) ==
    IF ValidStr(summary) /\ ValidLinks(reference_links)
    THEN Ok([summary |-> summary, reference_links |-> reference_links,
             last_updated |-> utcnow])
    ELSE Err("ValidationError")

\* FactCheckResult(source_id=..., ..., evidence=evidence); source_type is
\* one of the two literals at every call
FactCheckResult(source_id, source_name, source_type, verification, confidence, evidence) ==
    IF ValidStr(source_name) /\ verification \in Verification /\ ValidConfidence(confidence)
    THEN Ok([source_id |-> source_id, source_name |-> source_name,
             source_type |-> source_type, verification |-> verification,
             confidence |-> confidence, evidence |-> evidence])
    ELSE Err("ValidationError")

\* str(google_res.get("evidence", {}).get("claim_reviews", []))
StrOfList(l) == PyStr("str({})", <<l>>)

\* lines 271-284: the source of the model's record
LLMSourceOf(llm_res) ==
    LET ev == Get(llm_res, "evidence", <<>>)
        llm_evidence == Evidence(Get(ev, "explanation", JStr(<<>>)),
                                 Get(ev, "reference_links", JArr(<<>>)))
    IN  IF llm_evidence.error # None THEN llm_evidence
        ELSE FactCheckResult("gpt4_1", PyStr("{}", <<Get(llm_res, "source_name", "GPT4")>>),
                             "llm", Get(llm_res, "verification", "no_data"),
                             Get(ev, "confidence", JNum(0)), llm_evidence.value)

\* google_confidence (lines 288-290), in tenths
GoogleConfidence(google_verification) ==
    IF google_verification \in {"match", "mismatch"} THEN JNum(10)
    ELSE IF google_verification = "conflicting" THEN JNum(5)
    ELSE JNum(0)

\* rev.get("url", "") for the reviews of claim_reviews
ReviewUrls(claim_reviews) ==
    JArr([i \in DOMAIN claim_reviews |-> Get(claim_reviews[i], "url", JStr(<<>>))])

\* lines 287-305: the source of Google's record
GoogleSourceOf(google_res) ==
    LET claim_reviews == Get(Get(google_res, "evidence", <<>>), "claim_reviews", <<>>)
        google_verification == Get(google_res, "verification", "no_data")
        google_evidence == Evidence(StrOfList(claim_reviews), ReviewUrls(claim_reviews))
    IN  IF google_evidence.error # None THEN google_evidence
        ELSE FactCheckResult("google_factcheck_1",
                             PyStr("{}", <<"Google Fact Check Tools">>), "api",
                             google_verification, GoogleConfidence(google_verification),
                             google_evidence.value)

\* lines 310-323: the source of the i-th review of claim_reviews
ReviewSourceOf(i, rev) ==
    LET review_evidence == Evidence(Get(rev, "textualRating", JStr(<<>>)),
                                    JArr(<<Get(rev, "url", JStr(<<>>))>>))
        publisher == Get(rev, "publisher", JObj(<<>>))
        interpreted == Get(rev, "interpreted_rating", "no_data")
    IN  IF review_evidence.error # None THEN review_evidence
        ELSE IF publisher.type # "object" THEN Err("AttributeError")
        ELSE FactCheckResult(<<"google_review", i>>,
                             Get(publisher.fields, "name",
                                 PyStr("{}", <<"Unknown Publisher">>)),
                             "api", interpreted,
                             IF interpreted \in {"match", "mismatch"} THEN JNum(10)
                                                                     ELSE JNum(0),
                             review_evidence.value)

\* the loop of lines 308-324 from the i-th review on
RECURSIVE ReviewSources(_, _, _)
ReviewSources(claim_reviews, i, google_review_sources) ==
    IF i > Len(claim_reviews) THEN Ok(google_review_sources)
    ELSE LET review_source == ReviewSourceOf(i, claim_reviews[i])
         IN  IF review_source.error # None THEN review_source
             ELSE ReviewSources(claim_reviews, i + 1,
                                Append(google_review_sources, review_source.value))

\* check_fact from the two records on (lines 267-329): what it returns, or
\* the exception it raises
NormalizeSources(claim, llm_res, google_res) ==
    LET llm_source == LLMSourceOf(llm_res)
        google_source == GoogleSourceOf(google_res)
        google_review_sources ==
            ReviewSources(Get(Get(google_res, "evidence", <<>>), "claim_reviews", <<>>),
                          1, <<>>)
    IN  IF llm_source.error # None THEN llm_source
        ELSE IF google_source.error # None THEN google_source
        ELSE IF google_review_sources.error # None THEN google_review_sources
        ELSE Ok([claim_text |-> claim,
                 sources |-> <<llm_source.value, google_source.value>>
                                \o google_review_sources.value])

\* check_facts, lines 337-355: the result of a claim whose check_fact raised
ErrorResult(claim, e) ==
    [claim_text |-> claim,
     sources |-> << [source_id |-> "error_1",
                     source_name |-> PyStr("{}", <<"Error">>),
                     source_type |-> "api",
                     verification |-> "no_data",
                     confidence |-> JNum(0),
                     evidence |-> [summary |-> PyStr("Error processing claim: {}", <<e>>),
                                   reference_links |-> JArr(<<>>),
                                   last_updated |-> utcnow]] >>]

-----------------------------------------------------------------------------
(* Specification SpecService: one run of FactCheckerService.check_facts.   *)
(* The coroutine is suspended while an adapter call runs in the executor;  *)
(* an action is the code between two awaits.                               *)

\* a review without the key url
ReviewNoUrl == JObj([textualRating |-> JStr(RatingTrue), publisher |-> Publisher])

ServiceReply(verification, confidence) ==
    Json(JObj([verification |-> JStr(verification), confidence |-> confidence,
               evidence |-> JObj([summary |-> Summary, reference_links |-> Links])]))

\* what the model call does during a run
ServiceReplies ==
    {[kind |-> "exception", error |-> "APITimeoutError"],
     ServiceReply(WordChars.match, JNum(9)),
     ServiceReply(WordChars.no_data, JNum(3)),
     ServiceReply(WordChars.uncertain, JNum(5)),
     ServiceReply(WordChars.match, JStr(<<"h", "i", "g", "h">>)),
     Json(JObj([verification |-> JStr(WordChars.match), confidence |-> JNum(9)]))}

\* what the Google provider does during a run
ServiceProviders ==
    {[attempts |-> <<Responds(200)>>,
      body |-> Json(JObj([claims |-> JArr(<<JObj([claimReview |-> JArr(l)])>>)]))] :
        l \in {<<Review(RatingTrue)>>,
               <<Review(RatingTrue), Review(RatingFalse)>>,
               <<ReviewStringPublisher>>,
               <<ReviewNoUrl>>,
               <<Review(RatingTrue), ReviewNullRating>>}}
    \cup {[attempts |-> <<Responds(200)>>, body |-> Json(JObj(<<>>))],
          [attempts |-> <<Responds(404)>>, body |-> NoBody],
          [attempts |-> [k \in 1..max_retries |-> Raises("ReadTimeout")],
           body |-> NoBody]}

\* the claim of the current iteration of the loop of check_facts
ServiceClaim == sv_claims[Len(sv_results) + 1]

InitService ==
    /\ sv_claims \in SeqUpTo(ClaimTexts, MaxClaims)
    /\ sv_pc = "loop"
    /\ sv_in_flight = {}
    /\ sv_reply = None
    /\ sv_provider = None
    /\ sv_llm_res = None
    /\ sv_google_res = None
    /\ sv_results = <<>>
    /\ sv_out = None
    /\ AggregateIdle
    /\ BatchIdle
    /\ AdaptersIdle
    /\ FactCheckerIdle
    /\ RatingIdle
    /\ VideosIdle

\* variant: check_fact starts both adapter calls at once
ServiceStartClaim_both ==
    /\ sv_pc = "loop"
    /\ Len(sv_results) < Len(sv_claims)
    /\ sv_pc' = "llm"
    /\ sv_in_flight' = {"llm", "google"}
    /\ sv_reply' = None /\ sv_provider' = None
    /\ sv_llm_res' = None /\ sv_google_res' = None
    /\ UNCHANGED <<sv_claims, sv_results, sv_out, notSvVars>>

\* the loop takes the next claim and check_fact starts the model call in the
\* executor (lines 333-335, 264, 254-256)
ServiceStartClaim ==
    /\ sv_pc = "loop"
    /\ Len(sv_results) < Len(sv_claims)
    /\ sv_pc' = "llm"
    /\ sv_in_flight' = {"llm"}
    /\ sv_reply' = None /\ sv_provider' = None
    /\ sv_llm_res' = None /\ sv_google_res' = None
    /\ UNCHANGED <<sv_claims, sv_results, sv_out, notSvVars>>

\* the model call completes: llm_res is set and check_fact starts the Google
\* call in the executor (lines 264-265, 258-260)
ServiceLLMReturns ==
    /\ sv_pc = "llm"
    /\ \E reply \in ServiceReplies :
          /\ sv_reply' = Some(reply)
          /\ sv_llm_res' = Some(Service_LLMFactCheckAPI_check_claim(reply))
    /\ sv_pc' = "google"
    /\ sv_in_flight' = {"google"}
    /\ UNCHANGED <<sv_claims, sv_provider, sv_google_res, sv_results, sv_out, notSvVars>>

\* variant: an exception of check_fact leaves check_facts
ServiceGoogleReturns_propagates ==
    /\ sv_pc = "google"
    /\ \E provider \in ServiceProviders :
          LET google_res == Service_GoogleFactCheckAPI_check_claim(provider)
              result == NormalizeSources(ServiceClaim, sv_llm_res[1], google_res)
          IN  /\ sv_provider' = Some(provider)
              /\ sv_google_res' = Some(google_res)
              /\ IF result.error # None
                 THEN sv_pc' = "raised" /\ UNCHANGED sv_results
                 ELSE sv_pc' = "loop" /\ sv_results' = Append(sv_results, result.value)
    /\ sv_in_flight' = {}
    /\ UNCHANGED <<sv_claims, sv_reply, sv_llm_res, sv_out, notSvVars>>

\* the Google call completes: check_fact builds the sources and returns them
\* or raises, and check_facts appends the result of the claim (lines 265-329,
\* 334-355)
ServiceGoogleReturns ==
    /\ sv_pc = "google"
    /\ \E provider \in ServiceProviders :
          LET google_res == Service_GoogleFactCheckAPI_check_claim(provider)
              result == NormalizeSources(ServiceClaim, sv_llm_res[1], google_res)
          IN  /\ sv_provider' = Some(provider)
              /\ sv_google_res' = Some(google_res)
              /\ sv_results' =
                    Append(sv_results,
                           IF result.error # None
                           THEN ErrorResult(ServiceClaim, result.error[1])
                           ELSE result.value)
    /\ sv_pc' = "loop"
    /\ sv_in_flight' = {}
    /\ UNCHANGED <<sv_claims, sv_reply, sv_llm_res, sv_out, notSvVars>>

\* the loop is over: return results (line 356)
ServiceReturn ==
    /\ sv_pc = "loop"
    /\ Len(sv_results) = Len(sv_claims)
    /\ sv_out' = Some(sv_results)
    /\ sv_pc' = "done"
    /\ UNCHANGED <<sv_claims, sv_in_flight, sv_reply, sv_provider, sv_llm_res,
                   sv_google_res, sv_results, notSvVars>>

NextService ==
    \/ ServiceStartClaim
    \/ ServiceLLMReturns
    \/ ServiceGoogleReturns
    \/ ServiceReturn

SpecService == InitService /\ [][NextService]_vars

-----------------------------------------------------------------------------
(* Properties of FactCheckerService, checked under SpecService *)

\* check_fact has returned for the claim taken last (check_facts appended
\* what it returned, not the result of the handler)
LastResult == sv_results[Len(sv_results)]
CheckFactReturned ==
    /\ sv_pc = "loop"
    /\ sv_google_res # None
    /\ LastResult.sources[1].source_id # "error_1"

\* the Google adapter call failed: exception, non-200 status, no claims
GoogleCallFailed(p) ==
    \/ p.attempts[Len(p.attempts)] # Responds(200)
    \/ p.body.kind = "not_json"
    \/ p.body.value.type # "object"
    \/ ~Truthy(Get(p.body.value.fields, "claims", JArr(<<>>)))

\* the error text of the record of a failed Google call: str(e), or the text
\* given to no_data_result
GoogleErrorText(google_res) ==
    IF "error" \in DOMAIN google_res.evidence THEN google_res.evidence.error
    ELSE google_res.evidence.api_response

\* the error text of the record of a failed model call: str(e)
LLMErrorText(reply) ==
    IF reply.kind = "exception" THEN reply.error
    ELSE IF reply.kind = "not_json" THEN "JSONDecodeError"
    ELSE "Invalid response format from LLM"

\* A summary contains an error text if the text was put into it.  The str of
\* a list of reviews is the text of the reviews, "[]" for no review, and
\* holds no text of the adapter.
SummaryContains(summary, error_text) ==
    /\ "format" \in DOMAIN summary
    /\ summary.format # "str({})"
    /\ \E k \in DOMAIN summary.args : summary.args[k] = error_text

\* C11: when an adapter call failed, the source that check_fact returns for
\* that adapter has verification 'no_data' and its evidence.summary contains
\* the adapter's error text.
C11_ErrorTextInSummary ==
    CheckFactReturned =>
        /\ ServiceLLMFailure(sv_reply[1]) =>
              /\ LastResult.sources[1].verification = "no_data"
              /\ SummaryContains(LastResult.sources[1].evidence.summary,
                                 LLMErrorText(sv_reply[1]))
        /\ GoogleCallFailed(sv_provider[1]) =>
              /\ LastResult.sources[2].verification = "no_data"
              /\ SummaryContains(LastResult.sources[2].evidence.summary,
                                 GoogleErrorText(sv_google_res[1]))

\* C11, the part that holds: the source of a failed model call carries the
\* error text, and the source of a failed Google call is 'no_data'
C11_LLMHalf ==
    CheckFactReturned =>
        /\ ServiceLLMFailure(sv_reply[1]) =>
              /\ LastResult.sources[1].verification = "no_data"
              /\ SummaryContains(LastResult.sources[1].evidence.summary,
                                 LLMErrorText(sv_reply[1]))
        /\ GoogleCallFailed(sv_provider[1]) =>
              /\ LastResult.sources[2].verification = "no_data"
              /\ LastResult.sources[2].evidence.summary = StrOfList(<<>>)

-----------------------------------------------------------------------------
(* Properties of retry_with_backoff and of the Google adapters, checked    *)
(* under SpecAdapters                                                      *)

\* a Google adapter has been called
GoogleCalled ==
    /\ adapter \in {"factchecker.GoogleFactCheckAPI", "service.GoogleFactCheckAPI"}
    /\ adapter_out # None

\* every call of func made by the wrapper answered 403
All403 ==
    \A k \in 1..max_retries : google_provider[1].attempts[k] = Responds(403)

\* C12: the wrapper calls func at most max_retries = 3 times; when func
\* answers 403 on every call, the wrapper makes exactly 3 calls and returns
\* the last 403 response without raising, and check_claim returns a
\* 'no_data' record for it (the record of no_data_result, not the record of
\* the exception handler).
C12_RetryBound ==
    GoogleCalled =>
        /\ retry_trace[1].calls <= max_retries
        /\ retry_trace[1].calls <= Len(google_provider[1].attempts)
        /\ (Len(google_provider[1].attempts) = max_retries /\ All403) =>
              /\ retry_trace[1].kind = "return"
              /\ retry_trace[1].calls = max_retries
              /\ retry_trace[1].response = Responds(403)
              /\ adapter_out[1].verification = "no_data"
              /\ "api_response" \in DOMAIN adapter_out[1].evidence
              /\ "error" \notin DOMAIN adapter_out[1].evidence

\* C12 witness: a Google adapter has returned after three 403 responses
C12_Witness ==
    /\ GoogleCalled
    /\ Len(google_provider[1].attempts) = max_retries /\ All403
    /\ retry_trace[1].calls = 3
    /\ adapter_out[1].evidence.api_response = <<"Status code:", 403>>

\* the sleeps of the wrapper, and the positions of its backoff sleeps
Sleeps == retry_trace[1].sleeps
Backoffs == {i \in DOMAIN Sleeps : Sleeps[i].what = "backoff"}

\* the delays before the requests and the lengths of the backoff sleeps: one
\* delay of 0.5 to 1.5 s before each call of func, the backoff after failed
\* attempt k of 2^k s plus less than 1 s, each longer than the one before
BackoffLengths ==
    /\ Cardinality({i \in DOMAIN Sleeps : Sleeps[i].what = "pre_request"})
          = retry_trace[1].calls
    /\ \A i \in DOMAIN Sleeps :
          Sleeps[i].what = "pre_request" =>
              /\ SleepSeconds(Sleeps[i]).min = 5 /\ SleepSeconds(Sleeps[i]).max = 15
              /\ i > 1 => Sleeps[i - 1].what = "backoff"
    /\ \A i \in Backoffs :
          /\ i > 1 /\ Sleeps[i - 1].what = "pre_request"
          /\ Sleeps[i].attempt = Cardinality({j \in Backoffs : j < i})
          /\ SleepSeconds(Sleeps[i]).min = (2 ^ Sleeps[i].attempt) * 10
          /\ SleepSeconds(Sleeps[i]).sup = SleepSeconds(Sleeps[i]).min + 10
    /\ \A i, j \in Backoffs :
          i < j => SleepSeconds(Sleeps[i]).sup <= SleepSeconds(Sleeps[j]).min

\* C13: every attempt is preceded by a delay of 0.5 to 1.5 s; the backoff
\* sleeps happen between attempts, the one after failed attempt k lasting 2^k
\* s plus a jitter in [0, 1), each strictly longer than the one before; no
\* backoff sleep is taken after the last attempt.
C13_BackoffSchedule ==
    GoogleCalled =>
        /\ BackoffLengths
        /\ Sleeps[Len(Sleeps)].what # "backoff"

\* C13, the part that holds: the delays and the lengths, and no backoff
\* sleep after an attempt whose response is returned at once or whose
\* exception is raised; after a 403 on the last attempt the wrapper sleeps
\* the backoff of that attempt before it returns the response
C13_ScheduleAsCoded ==
    GoogleCalled =>
        /\ BackoffLengths
        /\ Sleeps[Len(Sleeps)].what = "backoff" <=>
              /\ retry_trace[1].calls = max_retries
              /\ google_provider[1].attempts[max_retries] = Responds(403)

-----------------------------------------------------------------------------
(* Specification SpecRating: _interpret_rating as a pure function on       *)
(* rating texts made of words                                              *)

\* most words of a rating text
MaxWords == 2

\* the words of the rating texts: indicators, words that contain an
\* indicator, and words that are none
RatingWords ==
    { <<"F", "a", "l", "s", "e">>,
      <<"T", "R", "U", "E">>,
      <<"a", "c", "c", "u", "r", "a", "t", "e">>,
      <<"i", "n", "c", "o", "r", "r", "e", "c", "t">>,
      <<"m", "o", "s", "t", "l", "y">>,
      <<"n", "o", "t">>,
      <<"s", "a", "t", "i", "r", "e">>,
      <<"u", "n", "p", "r", "o", "v", "e", "n">> }

\* " ".join(words)
RECURSIVE JoinWords(_)
JoinWords(words) ==
    IF words = <<>> THEN <<>>
    ELSE IF Len(words) = 1 THEN words[1]
    ELSE words[1] \o <<" ">> \o JoinWords(Tail(words))

\* the rating texts: up to MaxWords words, and the ratings of the reviews
RatingTexts ==
    {JoinWords(ws) : ws \in SeqUpTo(RatingWords, MaxWords)}
    \cup {RatingEmpty, RatingFalse, RatingTrue, RatingMostlyTrue, RatingUnverified,
          RatingSatire, RatingMixed, RatingUnconfirmed}

InitRating ==
    /\ rating_text \in RatingTexts
    /\ rating_out = None
    /\ AggregateIdle
    /\ BatchIdle
    /\ AdaptersIdle
    /\ FactCheckerIdle
    /\ ServiceIdle
    /\ VideosIdle

\* one call self._interpret_rating(rating_text)
InterpretRating ==
    /\ rating_out = None
    /\ rating_out' = Some(interpret_rating(JStr(rating_text)))
    /\ UNCHANGED <<rating_text, notRatingVars>>

NextRating == InterpretRating

SpecRating == InitRating /\ [][NextRating]_vars

(* Properties of _interpret_rating, checked under SpecRating *)

\* the word occurs in the lower-cased rating text
OccursInRating(word) ==
    \E i \in 1..Len(rating_text) :
        /\ i + Len(word) - 1 <= Len(rating_text)
        /\ \A k \in 1..Len(word) : lower(rating_text)[i + k - 1] = word[k]

HasFalsity == \E n \in DOMAIN false_indicators : OccursInRating(false_indicators[n])
HasTruth == \E n \in DOMAIN true_indicators : OccursInRating(true_indicators[n])

\* C14: if the lower-cased text contains a falsity indicator the result is
\* 'mismatch', also when it contains truth indicators as well; the result is
\* 'match' only when it contains a truth indicator and no falsity indicator;
\* it is 'no_data' when the text is empty or contains neither.
C14_FalsityFirst ==
    rating_out # None =>
        /\ HasFalsity => rating_out[1] = "mismatch"
        /\ rating_out[1] = "match" => (HasTruth /\ ~HasFalsity)
        /\ (rating_text = <<>> \/ (~HasFalsity /\ ~HasTruth)) => rating_out[1] = "no_data"
        /\ rating_out[1] \in {"match", "mismatch", "no_data"}

\* C14 witness: "mostly false, though some say it's accurate", which holds a
\* falsity indicator and a truth indicator, has been interpreted as mismatch
C14_Witness ==
    /\ rating_text = RatingMixed
    /\ HasFalsity /\ HasTruth
    /\ rating_out = Some("mismatch")

\* the places of the lower-cased rating text where the word starts
OccurrencesInRating(word) ==
    {i \in 1..Len(rating_text) :
        /\ i + Len(word) - 1 <= Len(rating_text)
        /\ \A k \in 1..Len(word) : lower(rating_text)[i + k - 1] = word[k]}

\* the occurrence at place i is the rest of a word negated by "un"
NegatedAt(i) ==
    /\ i > 2
    /\ lower(rating_text)[i - 2] = "u"
    /\ lower(rating_text)[i - 1] = "n"

\* a truth indicator occurs in the text, every occurrence of one is part of
\* a negated word, and no falsity indicator occurs
TruthOnlyNegated ==
    /\ HasTruth
    /\ ~HasFalsity
    /\ \A n \in DOMAIN true_indicators :
          \A i \in OccurrencesInRating(true_indicators[n]) : NegatedAt(i)

\* C30: _interpret_rating returns 'match' only for ratings that assert
\* truth: a rating in which a truth indicator occurs only as part of a
\* negated word that is not itself in the falsity list ('unverified',
\* 'unconfirmed') is classified as 'no_data', never as 'match'.
C30_NegatedIsNoData ==
    (rating_out # None /\ TruthOnlyNegated) => rating_out[1] = "no_data"

\* what the code does with such a rating: the substring test finds the
\* truth indicator inside the negated word
C30_NegatedIsMatch ==
    (rating_out # None /\ TruthOnlyNegated) => rating_out[1] = "match"

\* "Unverified" has been interpreted
C30_Reached ==
    /\ rating_text = RatingUnverified
    /\ TruthOnlyNegated
    /\ rating_out # None

-----------------------------------------------------------------------------
(* format_firebase_result of src/src/tests/test_google_factcheck.py, the   *)
(* reference of the tests for the record of a 200 response.  It has no     *)
(* exception handler: what raises in it leaves it.                         *)

\* lines 32-37: the side that a review adds to, "none" for neither
ReferenceSide(rev) ==
    IF rev.type # "object" THEN Err("AttributeError")
    ELSE LET textual_rating == Get(rev.fields, "textualRating", JStr(<<>>))
         IN  IF textual_rating.type # "string" THEN Err("AttributeError")
             ELSE LET rating == lower(textual_rating.chars)
                  IN  Ok(IF AnyIndicatorIn(false_indicators, rating) THEN "mismatch"
                         ELSE IF AnyIndicatorIn(true_indicators, rating) THEN "match"
                         ELSE "none")

ReferenceAcc0 == [all_reviews |-> <<>>, match_count |-> 0, mismatch_count |-> 0]

\* the inner loop `for rev in reviews` (lines 31-39)
RECURSIVE ReferenceReviewLoop(_, _)
ReferenceReviewLoop(revs, acc) ==
    IF revs = <<>> THEN Ok(acc)
    ELSE LET side == ReferenceSide(revs[1])
         IN  IF side.error # None THEN side
             ELSE ReferenceReviewLoop(
                      Tail(revs),
                      [all_reviews    |-> Append(acc.all_reviews, revs[1].fields),
                       match_count    |-> acc.match_count
                                             + (IF side.value = "match" THEN 1 ELSE 0),
                       mismatch_count |-> acc.mismatch_count
                                             + (IF side.value = "mismatch" THEN 1 ELSE 0)])

\* the outer loop `for item in claims_data` (lines 29-39)
RECURSIVE ReferenceClaimLoop(_, _)
ReferenceClaimLoop(items, acc) ==
    IF items = <<>> THEN Ok(acc)
    ELSE IF items[1].type # "object" THEN Err("AttributeError")
    ELSE LET reviews == Iterate(Get(items[1].fields, "claimReview", JArr(<<>>)))
         IN  IF reviews.error # None THEN reviews
             ELSE LET r == ReferenceReviewLoop(reviews.value, acc)
                  IN  IF r.error # None THEN r
                      ELSE ReferenceClaimLoop(Tail(items), r.value)

\* lines 41-48: the function's own copy of the combination
reference_final_verification(match_count, mismatch_count) ==
    IF match_count = 0 /\ mismatch_count = 0 THEN "no_data"
    ELSE IF match_count > 0 /\ mismatch_count = 0 THEN "match"
    ELSE IF mismatch_count > 0 /\ match_count = 0 THEN "mismatch"
    ELSE "conflicting"

\* format_firebase_result(claim, response_data): the record, or Raised(e)
format_firebase_result(response_data) ==
    IF response_data.type # "object" THEN Raised("AttributeError")
    ELSE LET claims_data == Get(response_data.fields, "claims", JArr(<<>>))
         IN  IF ~Truthy(claims_data)
             THEN no_data_result(<<"No claims returned by Google">>)
             ELSE LET items == Iterate(claims_data)
                  IN  IF items.error # None THEN Raised(items.error[1])
                      ELSE LET all == ReferenceClaimLoop(items.value, ReferenceAcc0)
                           IN  IF all.error # None THEN Raised(all.error[1])
                               ELSE [source_name  |-> GoogleSourceName,
                                     verification |->
                                        reference_final_verification(
                                            all.value.match_count,
                                            all.value.mismatch_count),
                                     evidence     |->
                                        [claim_reviews |-> all.value.all_reviews,
                                         raw_data      |-> response_data.fields],
                                     source_url   |-> ""]

(* Properties of the tally of the Google adapter, checked under SpecAdapters *)

\* the reviews of the reply, as <<claim, review>> positions
ReplyData == google_provider[1].body.value
ReviewPositions ==
    UNION { {<<i, j>> : j \in DOMAIN ReplyData.fields.claims.items[i].fields.claimReview.items} :
            i \in {k \in DOMAIN ReplyData.fields.claims.items :
                      "claimReview" \in DOMAIN ReplyData.fields.claims.items[k].fields} }

\* the number of reviews of the reply whose rating is interpreted as v
ReviewsInterpretedAs(v) ==
    Cardinality({p \in ReviewPositions :
        interpret_rating(
            Get(ReplyData.fields.claims.items[p[1]].fields.claimReview.items[p[2]].fields,
                "textualRating", JStr(<<>>))) = v})

\* a 200 response of the expected structure with at least one claim review
\* has been given to check_claim of the service
TallyCase ==
    /\ adapter = "service.GoogleFactCheckAPI"
    /\ adapter_out # None
    /\ google_provider[1].attempts[Len(google_provider[1].attempts)] = Responds(200)
    /\ google_provider[1].body.kind = "json"
    /\ ExpectedGoogleStructure(ReplyData, "service")
    /\ HasReviews(ReplyData)

C15_ReferenceRaises ==
    /\ TallyCase
    /\ "raised" \in DOMAIN format_firebase_result(ReplyData)
    /\ adapter_out[1].verification = "match"

(* Properties of the vocabulary of the adapters, checked under SpecAdapters *)

\* C16: every record returned by check_claim of a Google adapter or of an
\* LLM adapter has a verification that is one of 'match', 'mismatch',
\* 'no_data', 'conflicting'; an answer of the provider outside this set is
\* mapped to 'no_data'.
C16_ClosedVocabulary ==
    adapter_out # None => adapter_out[1].verification \in Verification

\* C16, the adapters for which it holds: the Google adapters and the LLM
\* adapter of src/src/factchecker.py, which maps the verdict
C16_MappingAdapters ==
    (adapter_out # None /\ adapter # "service.LLMFactCheckAPI") =>
        adapter_out[1].verification \in Verification

(* Properties of the LLM adapter of the service, checked under SpecAdapters *)

\* the reply of the model is malformed: it is not JSON, or it lacks one of
\* the keys verification, confidence, evidence, evidence.summary,
\* evidence.reference_links
MalformedReply == llm_reply[1].kind # "exception" /\ ServiceLLMFailure(llm_reply[1])

\* C17: check_claim makes exactly one model call per claim; on a malformed
\* reply it returns verification 'no_data' with confidence 0.0 and an
\* explanatory text, without a second model call.
C17_MalformedReply ==
    (adapter = "service.LLMFactCheckAPI" /\ adapter_out # None) =>
        /\ Len(llm_calls) = 1
        /\ MalformedReply =>
              /\ adapter_out[1].verification = "no_data"
              /\ adapter_out[1].evidence.confidence = JNum(0)
              /\ adapter_out[1].evidence.explanation.type = "string"
              /\ "format" \in DOMAIN adapter_out[1].evidence.explanation
              /\ adapter_out[1].evidence.explanation.format = "Error processing with {}: {}"

\* C17 witness: a reply with verification 'match' and without the key
\* confidence has given 'no_data' with confidence 0.0 after one call
C17_Witness ==
    /\ adapter = "service.LLMFactCheckAPI" /\ adapter_out # None
    /\ llm_reply[1].kind = "json" /\ llm_reply[1].value.type = "object"
    /\ DOMAIN llm_reply[1].value.fields = {"verification", "evidence"}
    /\ llm_reply[1].value.fields.verification = JStr(WordChars.match)
    /\ adapter_out[1].verification = "no_data"
    /\ adapter_out[1].evidence.confidence = JNum(0)
    /\ Len(llm_calls) = 1

(* Properties of the adapter calls of check_fact, checked under SpecService *)

\* the Google call is started in this step
GoogleStarts == "google" \notin sv_in_flight /\ "google" \in sv_in_flight'

\* check_fact returns in this step (check_facts appends its result)
CheckFactEnds == Len(sv_results') = Len(sv_results) + 1

-----------------------------------------------------------------------------
(* Properties of FactChecker.check_fact, checked under SpecFactChecker *)

\* the confidence of the LLM record of the current claim
LLMConfidence == ConfidenceOf(fc_llm_result[1])

\* check_fact has returned for the current claim
FactReturned == fc_pc \in {"loop", "done"} /\ fc_llm_result # None

\* the sources of the entry appended for the current claim
ReturnedSources == fc_claims_results[Len(fc_claims_results)].checked_sources

\* records that the Google adapter can return during a run
FactCheckerGoogleRecords ==
    {GoogleFactCheckAPI_check_claim(provider) : provider \in FactCheckerProviders}

C19_WitnessBelow ==
    /\ FactReturned
    /\ LLMConfidence = JNum(7)
    /\ ReturnedSources[1].source_name = "Google Fact Check Tools Claims"

\* a confidence that is not a number is neither below nor at least 0.8: the
\* comparison of line 237 raises TypeError, Google is not called and
\* check_fact returns no record
NonNumericConfidenceRaises ==
    (fc_llm_result # None /\ LLMConfidence.type # "number") =>
        (fc_pc = "raised" /\ fc_calls = <<"llm">>)

-----------------------------------------------------------------------------
(* Properties of FactCheckerService.check_facts, checked under SpecService *)

\* both adapter calls of the claim taken last have completed
ClaimProcessed == sv_pc \in {"loop", "done"} /\ sv_google_res # None

\* what check_fact did for the claim taken last
LastCheckFact ==
    NormalizeSources(sv_claims[Len(sv_results)], sv_llm_res[1], sv_google_res[1])

\* check_fact raised for the claim taken last
CheckFactRaised == ClaimProcessed /\ LastCheckFact.error # None

\* a result that consists of the single source 'Error'
IsErrorResult(r) ==
    /\ Len(r.sources) = 1
    /\ r.sources[1].source_name = PyStr("{}", <<"Error">>)
    /\ r.sources[1].verification = "no_data"
    /\ r.sources[1].confidence = JNum(0)

\* C20: the pipeline produces output for every input claim.  check_facts
\* never raises; its results are, at every point, one per claim taken so
\* far, in input order, and it returns exactly one result per input claim;
\* when check_fact raises for a claim, that claim's result is a single source
\* named 'Error' with verification 'no_data' and confidence 0.0, and when it
\* returns, the result is what it returned; a result once appended is not
\* changed by what happens to the other claims of the batch.
C20_OutputForEveryClaim ==
    /\ [](/\ sv_pc # "raised"
          /\ Len(sv_results) <= Len(sv_claims)
          /\ \A i \in DOMAIN sv_results : sv_results[i].claim_text = sv_claims[i]
          /\ sv_pc = "done" =>
                (sv_out # None /\ sv_out[1] = sv_results
                 /\ Len(sv_out[1]) = Len(sv_claims))
          /\ ClaimProcessed =>
                IF LastCheckFact.error # None
                THEN IsErrorResult(LastResult)
                ELSE LastResult = LastCheckFact.value /\ ~IsErrorResult(LastResult))
    /\ [][\A i \in DOMAIN sv_results :
              i \in DOMAIN sv_results' /\ sv_results'[i] = sv_results[i]]_vars

\* C20 witness: check_facts has returned for two claims; check_fact raised
\* for the first one, whose result is the 'Error' source, and returned for
\* the second one, whose result has the sources of both adapters
C20_Witness ==
    /\ sv_pc = "done"
    /\ Len(sv_claims) = 2
    /\ Len(sv_out[1]) = 2
    /\ IsErrorResult(sv_out[1][1])
    /\ ~CheckFactRaised
    /\ Len(sv_out[1][2].sources) >= 2

\* the other order: the failure is that of the second claim
C20_WitnessLast ==
    /\ sv_pc = "done"
    /\ Len(sv_out[1]) = 2
    /\ ~IsErrorResult(sv_out[1][1])
    /\ CheckFactRaised
    /\ IsErrorResult(sv_out[1][2])

-----------------------------------------------------------------------------
(* Properties of GoogleFactCheckAPI.check_claim of src/src/factchecker.py, *)
(* checked under SpecAdapters                                              *)

\* check_claim of the Google adapter of factchecker.py has returned
FactcheckerGoogleReturned ==
    adapter = "factchecker.GoogleFactCheckAPI" /\ adapter_out # None

\* the keys that assertValidFactCheckResponse asks for
ResponseKeys == {"source_name", "verification", "evidence", "source_url"}

-----------------------------------------------------------------------------
(* Specification SpecVideos: the video routes of src/src/api_routes.py,    *)
(* served by one event loop, with their clients: the poller of             *)
(* src/src/main.py, the script src/scripts/process_new_videos.py, direct   *)
(* requests, and the script src/scripts/reset_fact_checks.py, which writes *)
(* to the database from a process of its own.  A handler without await is  *)
(* one action; a background task is suspended at its one await.           *)

\* the ids of the documents of the collection 'videos', in the order of
\* videos_ref.stream()
VideoOrder == <<"v1", "v2">>
VideoIds == {VideoOrder[i] : i \in DOMAIN VideoOrder}

\* a document of the collection with its fields 'transcript' and 'status'
\* (and a title), or no document
Doc(has_transcript, status) ==
    [exists |-> TRUE, transcript |-> has_transcript, status |-> status]
NoDoc == [exists |-> FALSE, transcript |-> FALSE, status |-> None]

\* variant: a document without status is listed with an empty status
StatusOf_empty(doc) == IF doc.status = None THEN "" ELSE doc.status[1]

\* data.get('status', 'pending')
StatusOf(doc) == IF doc.status = None THEN "pending" ELSE doc.status[1]

\* TranscriptService.get_transcript(video_id) returns a dict (lines 42-61)
HasTranscript(docs, v) == docs[v].exists /\ docs[v].transcript

\* TranscriptService.get_all_videos(), lines 67-81: the entries, by position
get_all_videos(docs) ==
    LET ids == SelectSeq(VideoOrder, LAMBDA v : docs[v].exists)
    IN  [i \in DOMAIN ids |-> [video_id |-> ids[i], status |-> StatusOf(docs[ids[i]])]]

\* doc_ref.update({"status": status})
update_transcript_status(docs, v, status) ==
    [docs EXCEPT ![v] = [@ EXCEPT !.status = Some(status)]]

\* the statuses that a client does not post for (main.py line 26,
\* process_new_videos.py line 37)
SkippedStatuses == {"processed", "in_progress"}

\* the videos of a listing that the loop of a client posts for, in order
\* (main.py lines 24-28, process_new_videos.py lines 34-43)
ToPost(videos) ==
    LET kept == SelectSeq(videos, LAMBDA video : video.status \notin SkippedStatuses)
    IN  [i \in DOMAIN kept |-> kept[i].video_id]

\* the clients that list the videos and post for them
Clients == {"poller", "script"}

\* how the pipeline of a background task ends: process_text raises or its
\* result has no key 'fact_check_results' (lines 75-76),
\* store_fact_check_results raises (line 94), or lines 75-95 complete
PipelineOutcomes == {"raises", "store_raises", "completes"}

Response(route, video, code, videos) ==
    Some([route |-> route, video |-> video, code |-> code, videos |-> videos])

InitVideos ==
    /\ vd_docs \in [VideoIds -> {NoDoc, Doc(FALSE, None), Doc(TRUE, None),
                                  Doc(TRUE, Some("pending"))}]
    /\ vd_docs["v1"].transcript
    /\ ~vd_docs["v2"].transcript
    /\ vd_stored = [v \in VideoIds |-> {}]
    /\ vd_tasks = <<>>
    /\ vd_todo = [c \in Clients |-> <<>>]
    /\ vd_response = None
    /\ AggregateIdle
    /\ BatchIdle
    /\ AdaptersIdle
    /\ FactCheckerIdle
    /\ ServiceIdle
    /\ RatingIdle

\* a client has no post left: it lists the videos with GET /videos
\* (api_routes.py lines 29-36; main.py lines 19-21, process_new_videos.py
\* line 28) and keeps the ones it will post for
ListVideos(c) ==
    /\ vd_todo[c] = <<>>
    /\ vd_todo' = [vd_todo EXCEPT ![c] = ToPost(get_all_videos(vd_docs))]
    /\ vd_response' = Response("GET /videos", "", 200, get_all_videos(vd_docs))
    /\ UNCHANGED <<vd_docs, vd_stored, vd_tasks, notVideoVars>>

\* the handler process_transcript of POST /videos/{video_id}/process
\* (api_routes.py lines 97-112)
process_transcript(v) ==
    IF ~HasTranscript(vd_docs, v)
    THEN /\ vd_response' = Response("POST /videos/{id}/process", v, 404, <<>>)
         /\ UNCHANGED <<vd_docs, vd_tasks>>
    ELSE /\ Len(vd_tasks) < MaxTasks
         /\ vd_docs' = update_transcript_status(vd_docs, v, "in_progress")
         /\ vd_tasks' = Append(vd_tasks, [video |-> v, pc |-> "scheduled"])
         /\ vd_response' = Response("POST /videos/{id}/process", v, 200, <<>>)

\* a client posts for the next video of its listing (main.py line 31,
\* process_new_videos.py lines 46, 17-24)
ClientPost(c) ==
    /\ vd_todo[c] # <<>>
    /\ process_transcript(Head(vd_todo[c]))
    /\ vd_todo' = [vd_todo EXCEPT ![c] = Tail(@)]
    /\ UNCHANGED <<vd_stored, notVideoVars>>

\* a request POST /videos/{video_id}/process from anyone else
DirectProcess(v) ==
    /\ process_transcript(v)
    /\ UNCHANGED <<vd_stored, vd_todo, notVideoVars>>

\* a background task starts: process_claims_in_background up to its await
\* (api_routes.py lines 70-75)
TaskStart(t) ==
    /\ vd_tasks[t].pc = "scheduled"
    /\ vd_tasks' = [vd_tasks EXCEPT ![t].pc =
                       IF HasTranscript(vd_docs, vd_tasks[t].video) THEN "pipeline"
                                                                    ELSE "returned"]
    /\ vd_response' = None
    /\ UNCHANGED <<vd_docs, vd_stored, vd_todo, notVideoVars>>

\* variant: the status is written before the results are stored, so that a
\* failing store leaves it behind
TaskEnd_status_first(t) ==
    /\ vd_tasks[t].pc = "pipeline"
    /\ \E outcome \in PipelineOutcomes :
          CASE outcome = "raises" ->
                  /\ vd_tasks' = [vd_tasks EXCEPT ![t].pc = "raised"]
                  /\ UNCHANGED <<vd_docs, vd_stored>>
            [] outcome = "store_raises" ->
                  /\ vd_docs' = update_transcript_status(vd_docs, vd_tasks[t].video,
                                                         "processed")
                  /\ vd_tasks' = [vd_tasks EXCEPT ![t].pc = "store_raised"]
                  /\ UNCHANGED vd_stored
            [] outcome = "completes" ->
                  /\ vd_stored' = [vd_stored EXCEPT ![vd_tasks[t].video] = @ \cup {t}]
                  /\ vd_docs' = update_transcript_status(vd_docs, vd_tasks[t].video,
                                                         "processed")
                  /\ vd_tasks' = [vd_tasks EXCEPT ![t].pc = "done"]
    /\ vd_response' = None
    /\ UNCHANGED <<vd_todo, notVideoVars>>

\* the pipeline of a background task ends: process_claims_in_background from
\* its await on (api_routes.py lines 75-95); an exception ends the task
TaskEnd(t) ==
    /\ vd_tasks[t].pc = "pipeline"
    /\ \E outcome \in PipelineOutcomes :
          CASE outcome = "raises" ->
                  /\ vd_tasks' = [vd_tasks EXCEPT ![t].pc = "raised"]
                  /\ UNCHANGED <<vd_docs, vd_stored>>
            [] outcome = "store_raises" ->
                  /\ vd_tasks' = [vd_tasks EXCEPT ![t].pc = "store_raised"]
                  /\ UNCHANGED <<vd_docs, vd_stored>>
            [] outcome = "completes" ->
                  /\ vd_stored' = [vd_stored EXCEPT ![vd_tasks[t].video] = @ \cup {t}]
                  /\ vd_docs' = update_transcript_status(vd_docs, vd_tasks[t].video,
                                                         "processed")
                  /\ vd_tasks' = [vd_tasks EXCEPT ![t].pc = "done"]
    /\ vd_response' = None
    /\ UNCHANGED <<vd_todo, notVideoVars>>

\* scripts/reset_fact_checks.py resets one video of its list: the status is
\* set to pending (lines 25-29, 37-39); what it deletes is under the
\* collection 'fact_checks', not under 'videos' (lines 42-46)
ResetStatus(v) ==
    /\ vd_docs[v].exists
    /\ vd_docs' = update_transcript_status(vd_docs, v, "pending")
    /\ vd_response' = None
    /\ UNCHANGED <<vd_stored, vd_tasks, vd_todo, notVideoVars>>

\* the handler reset_video of POST /videos/{video_id}/reset (api_routes.py
\* lines 172-198): the HTTPException of a missing document and the
\* AttributeError of db.recursiveDelete, which the Firestore client does not
\* have, are both caught by line 197 and answered with 500
ResetVideo(v) ==
    /\ vd_response' = Response("POST /videos/{id}/reset", v, 500, <<>>)
    /\ UNCHANGED <<vd_docs, vd_stored, vd_tasks, vd_todo, notVideoVars>>

NextVideos ==
    \/ \E c \in Clients : ListVideos(c)
    \/ \E c \in Clients : ClientPost(c)
    \/ \E v \in VideoIds : DirectProcess(v)
    \/ \E t \in DOMAIN vd_tasks : TaskStart(t)
    \/ \E t \in DOMAIN vd_tasks : TaskEnd(t)
    \/ \E v \in VideoIds : ResetStatus(v)
    \/ \E v \in VideoIds : ResetVideo(v)

SpecVideos == InitVideos /\ [][NextVideos]_vars

\* a background task takes its next step
TaskStep(t) == t \in DOMAIN vd_tasks /\ (TaskStart(t) \/ TaskEnd(t))

\* the poller takes its next step
PollerStep == ListVideos("poller") \/ ClientPost("poller")

\* the event loop runs every background task and the poller: a task that
\* can take a step takes it, and the poller goes on polling
SpecVideosFair ==
    /\ SpecVideos
    /\ \A t \in 1..MaxTasks : WF_vars(TaskStep(t))
    /\ WF_vars(PollerStep)

-----------------------------------------------------------------------------
(* Properties of the video routes, checked under SpecVideos *)

\* the videos that GET /videos returns in the current state
ListedVideos == get_all_videos(vd_docs)

\* the last step was the request GET /videos
ListedNow == vd_response # None /\ vd_response[1].route = "GET /videos"

ProcessAnswered(resp, v, code) ==
    /\ resp # None
    /\ resp[1].route = "POST /videos/{id}/process"
    /\ resp[1].video = v
    /\ resp[1].code = code

\* the status field of the document of v holds status
StatusIs(docs, v, status) == docs[v].status = Some(status)

\* C23: video status protocol.  POST /videos/{id}/process answers 404 and
\* leaves the status unchanged when the video has no transcript; otherwise
\* it writes status 'in_progress' and schedules the background task, the
\* status being written when the task is scheduled; the background task
\* writes status 'processed' only in the step in which
\* store_fact_check_results has completed for that run, so a video with
\* status 'processed' always has the results of a completed run stored.
C23_StatusProtocol ==
    /\ [](\A v \in VideoIds :
            /\ ProcessAnswered(vd_response, v, 404) => ~HasTranscript(vd_docs, v)
            /\ ProcessAnswered(vd_response, v, 200) =>
                  /\ HasTranscript(vd_docs, v)
                  /\ StatusIs(vd_docs, v, "in_progress")
                  /\ vd_tasks # <<>>
                  /\ vd_tasks[Len(vd_tasks)] = [video |-> v, pc |-> "scheduled"]
            /\ StatusIs(vd_docs, v, "processed") =>
                  \E t \in vd_stored[v] : vd_tasks[t] = [video |-> v, pc |-> "done"])
    /\ [][\A v \in VideoIds :
            /\ ProcessAnswered(vd_response', v, 404) =>
                  (vd_docs' = vd_docs /\ vd_tasks' = vd_tasks)
            /\ (Len(vd_tasks') > Len(vd_tasks) /\ vd_tasks'[Len(vd_tasks')].video = v) =>
                  /\ ProcessAnswered(vd_response', v, 200)
                  /\ StatusIs(vd_docs', v, "in_progress")
            /\ (StatusIs(vd_docs', v, "processed") /\ ~StatusIs(vd_docs, v, "processed")) =>
                  \E t \in DOMAIN vd_tasks :
                      /\ vd_tasks[t] = [video |-> v, pc |-> "pipeline"]
                      /\ vd_tasks'[t].pc = "done"
                      /\ t \in vd_stored'[v]]_vars

\* C23 witness: a request for the video without transcript has been answered
\* with 404 while the other video is 'processed' with the results of its
\* completed run stored
C23_Witness ==
    /\ ProcessAnswered(vd_response, "v2", 404)
    /\ StatusIs(vd_docs, "v1", "processed")
    /\ vd_stored["v1"] # {}
    /\ \E t \in DOMAIN vd_tasks : vd_tasks[t].pc = "store_raised"

\* the background tasks of v that have not ended
RunningTasks(v) ==
    {t \in DOMAIN vd_tasks :
        vd_tasks[t].video = v /\ vd_tasks[t].pc \in {"scheduled", "pipeline"}}

\* C25: at most one background processing task runs for a given video at any
\* time: a process request for a video whose status is already 'in_progress'
\* or 'processed' does not start a second processing task and does not
\* change its status.
C25_SingleTask ==
    /\ [](\A v \in VideoIds : Cardinality(RunningTasks(v)) <= 1)
    /\ [][\A v \in VideoIds :
            ((\E code \in {200, 404} : ProcessAnswered(vd_response', v, code))
             /\ StatusOf(vd_docs[v]) \in SkippedStatuses) =>
                (vd_tasks' = vd_tasks /\ vd_docs'[v].status = vd_docs[v].status)]_vars

\* C24: liveness of video processing: every video whose processing was
\* started (status set to 'in_progress') eventually reaches status
\* 'processed' or goes back to a status that the poller picks up again; no
\* video stays 'in_progress' forever.
C24_LeavesInProgress ==
    \A v \in VideoIds :
        StatusIs(vd_docs, v, "in_progress") ~>
            (StatusIs(vd_docs, v, "processed")
             \/ StatusOf(vd_docs[v]) \notin SkippedStatuses)

-----------------------------------------------------------------------------
(* Properties of the processing times of FactChecker.check_facts, checked  *)
(* under SpecFactChecker                                                   *)

\* C26: in FactChecker.check_facts, the metadata.processing_time of each
\* result is the elapsed time measured for that claim's own check_fact call,
\* for every batch, including batches in which the same claim text occurs
\* more than once.
C26_OwnProcessingTime ==
    fc_out # None =>
        \A i \in DOMAIN fc_claims :
            fc_out[1].aggregated_results[i].metadata.processing_time = Some(fc_measured[i])

\* the part that holds: each result carries the time measured for the last
\* claim of the batch with the same text
C26_LastOccurrence ==
    fc_out # None =>
        \A i \in DOMAIN fc_claims :
            LET last == CHOOSE j \in DOMAIN fc_claims :
                            /\ fc_claims[j] = fc_claims[i]
                            /\ \A k \in DOMAIN fc_claims : fc_claims[k] = fc_claims[i] => k <= j
            IN  fc_out[1].aggregated_results[i].metadata.processing_time
                    = Some(fc_measured[last])

-----------------------------------------------------------------------------
(* Properties of the records that FactChecker.check_fact returns, checked  *)
(* under SpecFactChecker                                                   *)

\* check_fact returned the record of the LLM adapter without a Google call
ReturnedLLMRecord ==
    /\ FactReturned
    /\ fc_calls = <<"llm">>
    /\ ReturnedSources = <<fc_llm_result[1]>>

\* the model call of the current claim failed: the record is the handler's
LLMCallFailed == fc_llm_result # None /\ "error" \in DOMAIN fc_llm_result[1].evidence

\* C27 as claimed: in FactChecker.check_fact, a record returned from the LLM
\* adapter without consulting Google always has verification 'match' or
\* 'mismatch': whenever the LLM verdict is 'uncertain' (mapped to 'no_data')
\* or the LLM call failed, the Google adapter is called and its record is
\* returned.
C27_DecisiveLLMRecord ==
    /\ ReturnedLLMRecord => fc_llm_result[1].verification \in {"match", "mismatch"}
    /\ (FactReturned /\ fc_llm_result[1].verification = "no_data") =>
          /\ fc_calls = <<"llm", "google">>
          /\ ReturnedSources[1] \in FactCheckerGoogleRecords

\* C27 as amended: in FactChecker.check_fact, a record returned from the LLM
\* adapter without consulting Google always has a confidence of 0.8 or more,
\* whatever its verification: whenever the LLM confidence is below 0.8 or
\* the LLM call failed, the Google adapter is called and its record is
\* returned.
C27_ConfidentLLMRecord ==
    /\ ReturnedLLMRecord =>
          /\ LLMConfidence.type = "number"
          /\ LLMConfidence.tenths >= llm_confidence_threshold
          /\ ~LLMCallFailed
    /\ (FactReturned /\ (LLMCallFailed \/ LLMConfidence.tenths < llm_confidence_threshold)) =>
          /\ fc_calls = <<"llm", "google">>
          /\ Len(ReturnedSources) = 1
          /\ ReturnedSources[1] \in FactCheckerGoogleRecords
    /\ (LLMCallFailed /\ fc_pc \notin {"llm", "google"}) => FactReturned

\* C27 witness: the model answered 'uncertain' with confidence 0.8 and
\* check_fact returned its 'no_data' record without a Google call
C27_Witness ==
    /\ ReturnedLLMRecord
    /\ fc_llm_result[1].verification = "no_data"
    /\ LLMConfidence = JNum(llm_confidence_threshold)

\* C27, other case reached: the model call failed and Google's record was
\* returned
C27_WitnessFailed ==
    /\ FactReturned
    /\ LLMCallFailed
    /\ ReturnedSources[1].source_name = GoogleSourceName

-----------------------------------------------------------------------------
(* Properties of aggregate_source_results under reordering, checked under  *)
(* SpecAggregate                                                           *)

\* the lists a and b hold the same records, each as many times
SameRecords(a, b) ==
    /\ Len(a) = Len(b)
    /\ \A r \in SourceRecord :
          Cardinality({i \in DOMAIN a : a[i] = r}) = Cardinality({i \in DOMAIN b : b[i] = r})

\* C28: aggregate_source_results is insensitive to the order of its sources:
\* for every list of source records and every permutation of that list, the
\* status, the confidence, sources_checked and sources_with_data of the two
\* results are equal.
C28_OrderInsensitive ==
    (agg_out # None /\ alt_out # None /\ SameRecords(alt_results, source_results)) =>
        /\ alt_out[1].verdict.status = agg_out[1].verdict.status
        /\ alt_out[1].verdict.confidence = agg_out[1].verdict.confidence
        /\ alt_out[1].metadata.sources_checked = agg_out[1].metadata.sources_checked
        /\ alt_out[1].metadata.sources_with_data = agg_out[1].metadata.sources_with_data

\* C28 witness: a match followed by a mismatch and a no_data record, and the
\* same records with the mismatch first, have both been aggregated
C28_Witness ==
    /\ agg_out # None /\ alt_out # None
    /\ Len(source_results) = 3
    /\ SameRecords(alt_results, source_results)
    /\ source_results[1].verification = "match"
    /\ source_results[2].verification = "mismatch"
    /\ source_results[3].verification = "no_data"
    /\ alt_results[1].verification = "mismatch"
    /\ alt_out[1].sources # agg_out[1].sources

-----------------------------------------------------------------------------
(* Specification SpecRetry: one check_claim of a Google adapter, where     *)
(* what httpx.get would do on each of max_retries calls is fixed in        *)
(* advance, whether the wrapper of retry_with_backoff makes the call or    *)
(* not.                                                                    *)

\* what one call of httpx.get can do
RetryOutcomes == RetriedAttempts \cup FinalResponses

\* the body of a response with status 200: no claims, or one review
RetryBodies ==
    {Json(JObj(<<>>)),
     Json(JObj([claims |-> JArr(<<JObj([claimReview |-> JArr(<<Review(RatingTrue)>>)])>>)]))}

InitRetry ==
    /\ google_provider \in
          {Some([attempts |-> a, body |-> b]) :
              a \in [1..max_retries -> RetryOutcomes], b \in RetryBodies}
    /\ llm_reply = None
    /\ adapter = ""
    /\ adapter_out = None
    /\ retry_trace = None
    /\ llm_calls = <<>>
    /\ AggregateIdle
    /\ BatchIdle
    /\ FactCheckerIdle
    /\ ServiceIdle
    /\ RatingIdle
    /\ VideosIdle

NextRetry == GoogleCheckClaim \/ ServiceGoogleCheckClaim

SpecRetry == InitRetry /\ [][NextRetry]_vars

-----------------------------------------------------------------------------
(* Properties of retry_with_backoff, checked under SpecRetry *)

\* what httpx.get does on its k-th call
AttemptOutcome(k) == google_provider[1].attempts[k]

\* the calls that answer with a status other than 403
FinalAttempts ==
    {k \in 1..max_retries :
        AttemptOutcome(k).kind = "response" /\ AttemptOutcome(k).status_code # 403}

\* the number of calls the wrapper is to make: up to the first response that
\* is not 403, or all max_retries of them
CallsDue ==
    IF FinalAttempts = {} THEN max_retries
    ELSE CHOOSE k \in FinalAttempts : \A j \in FinalAttempts : k <= j

\* C29: retry_with_backoff retries only on a 403 response or an exception.
\* The first response whose status is not 403 is returned immediately, with
\* no further call to func and no backoff sleep after it; an exception on an
\* attempt before the last is swallowed and followed by another attempt; an
\* exception on the last attempt is re-raised by the wrapper and converted
\* by check_claim into a 'no_data' record.
C29_RetryOnlyOn403OrException ==
    GoogleCalled =>
        /\ retry_trace[1].calls = CallsDue
        /\ \A k \in 1..(retry_trace[1].calls - 1) : AttemptOutcome(k) \in RetriedAttempts
        /\ FinalAttempts # {} =>
              /\ retry_trace[1].kind = "return"
              /\ retry_trace[1].response = AttemptOutcome(CallsDue)
              /\ Sleeps[Len(Sleeps)] = PreRequestSleep
              /\ Cardinality(Backoffs) = CallsDue - 1
        /\ \A k \in 1..(max_retries - 1) :
              (AttemptOutcome(k).kind = "exception" /\ k <= CallsDue) =>
                  (retry_trace[1].calls > k /\ BackoffSleep(k - 1) \in {Sleeps[i] : i \in Backoffs})
        /\ (FinalAttempts = {} /\ AttemptOutcome(max_retries).kind = "exception") =>
              /\ retry_trace[1].kind = "raise"
              /\ retry_trace[1].error = AttemptOutcome(max_retries).error
              /\ adapter_out[1].verification = "no_data"
              /\ adapter_out[1].evidence = [error |-> AttemptOutcome(max_retries).error]

\* C29 witness: the service adapter was called; the first call raised, the
\* second answered 500, which was returned without a third call
C29_Witness ==
    /\ adapter = "service.GoogleFactCheckAPI" /\ adapter_out # None
    /\ AttemptOutcome(1) = Raises("ReadTimeout")
    /\ AttemptOutcome(2) = Responds(500)
    /\ AttemptOutcome(3) = Responds(200)
    /\ retry_trace[1].calls = 2
    /\ retry_trace[1].response = Responds(500)
    /\ adapter_out[1].evidence.api_response = <<"Status code:", 500>>

\* C29, other case reached: the last of three calls raised and the record
\* of the handler was returned
C29_WitnessRaised ==
    /\ adapter = "service.GoogleFactCheckAPI" /\ adapter_out # None
    /\ AttemptOutcome(1) = Responds(403)
    /\ AttemptOutcome(3) = Raises("ConnectError")
    /\ retry_trace[1].kind = "raise"
    /\ adapter_out[1].evidence = [error |-> "ConnectError"]

=============================================================================
